---- MODULE Spec2Model ----
(***************************************************************************)
(* The StorageManager of TileDB (tiledb/sm/storage_manager/                *)
(* storage_manager.cc) as a state machine: the registry of arrays open for *)
(* reads, its mutexes, the exclusive-lock protocol and the cancellation    *)
(* protocol.  Every API call is a sequence of steps of the calling thread; *)
(* a step ends where the code can block (a mutex, a condition variable, a  *)
(* VFS call) so that every interleaving of the calls is a behaviour.       *)
(***************************************************************************)
EXTENDS Integers, FiniteSets, Sequences, TLC

\* Number of client threads calling into the coordinator.
NumThreads == 2
\* A thread starts an open only while the entry's counter and the number of
\* unmatched opens are below MaxRef (and a reopen only while the counter is
\* not negative).
MaxRef == 2

Threads == 1..NumThreads
Uris == {"A"}
Keys == {"K1", "K2"}
NoThread == 0
NoKey == "nokey"
\* The tasks that query_submit_async may enqueue.
MaxTasks == 2
TaskIds == 1..MaxTasks
NoTask == 0
\* The closes of a URI open in the other registry only that the history
\* counts.
MaxNoops == 2

\* The calls of cancel_all_tasks that a thread makes one after the other.
MaxCancels == 3

VARIABLES
  pc,                          \* position of each thread inside its call
  op,                          \* the API call a thread is in
  uri,                         \* array_uri argument of that call
  key,                         \* encryption_key argument, until it is checked
  last,                        \* status returned by the thread's last call
  open_arrays_for_reads_,      \* URI -> OpenArray (present or not)
  open_array_for_reads_mtx_,   \* owner of the reads-registry mutex
  open_arrays_for_writes_,     \* URI -> OpenArray of the writes registry
  open_array_for_writes_mtx_,  \* owner of the writes-registry mutex
  xlock_mtx_,                  \* owner of the global exclusive mutex
  xfilelocks_,                 \* URIs with a recorded exclusive filelock
  vfs_shared,                  \* VFS: shared filelocks held on <u>/__lockfile
  vfs_excl,                    \* VFS: exclusive filelock held on <u>/__lockfile
  cancellation_in_progress_,   \* the cancel flag
  queries_in_progress_,        \* the in-progress counter
  tasks,                       \* cancelable_tasks_: state of every task
  cur_task,                    \* the task whose run closure a worker runs
  before_k,                    \* history: tasks enqueued before a cancel call
  opens,                       \* history: successful opens not yet closed
  xlocked,                     \* history: successful xlocks not yet xunlocked
  calls,                       \* history: calls made by a scripted thread
  noop_closes,                 \* history: closes that found no entry
  registered,                  \* the coordinator is in the global registry
  vfs_terminated,              \* vfs_->terminate() has succeeded
  dpc,                         \* position of the destructor
  teardown,                    \* history: the steps the destructor has done
  dt_errors,                   \* history: the calls of the destructor that failed
  logged,                      \* history: the failures the destructor logged
  dir_parent,                  \* directory tree: parent of every path
  dir_valid,                   \* directory tree: the paths that are objects
  objs_,                       \* ObjectIter::objs_
  expanded_,                   \* ObjectIter::expanded_
  order_,                      \* ObjectIter::order_
  recursive_,                  \* ObjectIter::recursive_
  emitted,                     \* history: the paths object_iter_next returned
  has_next,                    \* *has_next of the last object_iter_next
  ls_result,                   \* VFS: children of the array directory, ls order
  timestamp,                   \* snapshot timestamp of the open / reopen
  fragment_uris,               \* output of get_fragment_uris
  fragments_to_load,           \* output of get_sorted_fragment_uris
  fragment_metadata,           \* the list returned to the caller
  memo,                        \* OpenArray: metadata memoized per fragment
  fpc,                         \* position of the fragment selection
  par_pc,                      \* parallel_for: position of every iteration f
  par_md,                      \* parallel_for: metadata of every iteration f
  constructed,                 \* FragmentMetadata objects constructed so far
  inserted,                    \* history: insertions into the memo per URI
  load_calls                   \* history: calls of load_fragment_metadata

threadVars == <<pc, op, uri, key, last>>
regVars == <<open_arrays_for_reads_, open_array_for_reads_mtx_>>
writeVars == <<open_arrays_for_writes_, open_array_for_writes_mtx_>>
xVars == <<xlock_mtx_, xfilelocks_>>
vfsVars == <<vfs_shared, vfs_excl>>
cancelVars == <<cancellation_in_progress_, queries_in_progress_, tasks,
                cur_task, before_k>>
histVars == <<opens, xlocked, calls>>
dataVars == <<ls_result, timestamp, fragment_uris, fragments_to_load,
              fragment_metadata, memo, fpc>>
tearVars == <<registered, vfs_terminated, dpc, teardown, dt_errors, logged>>
iterVars == <<dir_parent, dir_valid, objs_, expanded_, order_, recursive_,
              emitted, has_next>>
loadVars == <<par_pc, par_md, constructed, inserted, load_calls>>
vars == <<threadVars, regVars, writeVars, xVars, vfsVars, cancelVars,
          histVars, noop_closes, dataVars, tearVars, iterVars, loadVars>>

\* An URI with no OpenArray in the registry.
NoEntry ==
  [present |-> FALSE, cnt |-> 0, key |-> NoKey, schema |-> FALSE,
   filelock |-> FALSE, mtx |-> NoThread]

\* new OpenArray(array_uri, QueryType::READ)
NewOpenArray ==
  [present |-> TRUE, cnt |-> 0, key |-> NoKey, schema |-> FALSE,
   filelock |-> FALSE, mtx |-> NoThread]

\* No object iterator has been created.
\* No call of load_fragment_metadata is modelled step by step.
NoParallelLoad ==
  /\ par_pc = <<>>
  /\ par_md = <<>>
  /\ constructed = 0
  /\ inserted = <<>>
  /\ load_calls = 0

NoObjectIter ==
  /\ dir_parent = <<>>
  /\ dir_valid = <<>>
  /\ objs_ = <<>>
  /\ expanded_ = <<>>
  /\ order_ = "none"
  /\ recursive_ = FALSE
  /\ emitted = <<>>
  /\ has_next = TRUE

\* The coordinator after construction, no call made.
InitCoordinator ==
  /\ pc = [t \in Threads |-> "idle"]
  /\ op = [t \in Threads |-> "none"]
  /\ uri = [t \in Threads |-> "A"]
  /\ key = [t \in Threads |-> NoKey]
  /\ last = [t \in Threads |-> "none"]
  /\ open_arrays_for_reads_ = [u \in Uris |-> NoEntry]
  /\ open_array_for_reads_mtx_ = NoThread
  /\ open_arrays_for_writes_ = [u \in Uris |-> NoEntry]
  /\ open_array_for_writes_mtx_ = NoThread
  /\ xlock_mtx_ = NoThread
  /\ xfilelocks_ = {}
  /\ vfs_shared = [u \in Uris |-> 0]
  /\ vfs_excl = [u \in Uris |-> FALSE]
  /\ cancellation_in_progress_ = FALSE
  /\ queries_in_progress_ = 0
  /\ tasks = [k \in TaskIds |-> "none"]
  /\ cur_task = [t \in Threads |-> NoTask]
  /\ before_k = [t \in Threads |-> {}]
  /\ opens = [u \in Uris |-> 0]
  /\ xlocked = {}
  /\ calls = [t \in Threads |-> 0]
  /\ noop_closes = [r \in {"reads", "writes"} |-> 0]
  /\ registered = TRUE
  /\ vfs_terminated = FALSE
  /\ dpc = "alive"
  /\ teardown = <<>>
  /\ dt_errors = {}
  /\ logged = {}

\* StorageManager::StorageManager(), the array directory without children.
Init ==
  /\ InitCoordinator
  /\ NoObjectIter
  /\ NoParallelLoad
  /\ ls_result = <<>>
  /\ timestamp = 0
  /\ fragment_uris = <<>>
  /\ fragments_to_load = <<>>
  /\ fragment_metadata = <<>>
  /\ memo = {}
  /\ fpc = "closed"

--------------------------------------------------------------------------
\* Helpers of the step relation.

OA(u) == open_arrays_for_reads_[u]

Goto(t, p) ==
  /\ pc' = [pc EXCEPT ![t] = p]
  /\ UNCHANGED <<op, uri, key, last>>

\* The call of thread t returns status st.
Return(t, st) ==
  /\ pc' = [pc EXCEPT ![t] = IF dpc = "alive" THEN "idle" ELSE "destructor"]
  /\ op' = [op EXCEPT ![t] = "none"]
  /\ key' = [key EXCEPT ![t] = NoKey]
  /\ last' = [last EXCEPT ![t] = st]
  /\ UNCHANGED uri

\* Thread t enters API call o with arguments (u, k).
Call(t, o, first, u, k) ==
  /\ pc[t] = "idle"
  /\ pc' = [pc EXCEPT ![t] = first]
  /\ op' = [op EXCEPT ![t] = o]
  /\ uri' = [uri EXCEPT ![t] = u]
  /\ key' = [key EXCEPT ![t] = k]
  /\ last' = [last EXCEPT ![t] = "none"]

\* History: the call o of thread t has found no entry in registry r while
\* the other registry holds an entry of the URI (other).  The close that
\* rolls an open back is not counted.
CountNoop(t, o, r, other) ==
  noop_closes' = IF op[t] = o /\ other /\ noop_closes[r] < MaxNoops
                 THEN [noop_closes EXCEPT ![r] = @ + 1]
                 ELSE noop_closes

\* OpenArray::set_encryption_key: the first key is recorded, a later key
\* must be the same key.
KeyMatches(e, k) == e.key = NoKey \/ e.key = k

set_encryption_key(e, k) == IF e.key = NoKey THEN [e EXCEPT !.key = k] ELSE e

\* OpenArray::cnt_incr / cnt_decr
cnt_incr(e) == [e EXCEPT !.cnt = @ + 1]

cnt_decr(e) == [e EXCEPT !.cnt = @ - 1]

\* xlock_cv_.notify_all() by thread t, which returns st in the same step:
\* every thread waiting on the condition variable becomes runnable and must
\* take the registry mutex again.
NotifyAllAndReturn(t, st) ==
  /\ pc' = [x \in Threads |->
              IF x = t THEN "idle"
              ELSE IF pc[x] = "xl_waiting" THEN "xl_lock_reads" ELSE pc[x]]
  /\ op' = [op EXCEPT ![t] = "none"]
  /\ key' = [key EXCEPT ![t] = NoKey]
  /\ last' = [last EXCEPT ![t] = st]
  /\ UNCHANGED uri

\* History of the calls: a successful open adds an unmatched open of
\* the URI, a call of array_close_for_reads matches one.
OpenReturned(t) == opens' = [opens EXCEPT ![uri[t]] = @ + 1]

CloseCalled(u) ==
  opens' = IF opens[u] > 0 THEN [opens EXCEPT ![u] = @ - 1] ELSE opens

\* Status of a finished array_close_for_reads: the status of the API call, or
\* the error that made array_open_for_reads / array_reopen roll back.
CloseStatus(t, st) == IF op[t] = "close" THEN st ELSE "err"

--------------------------------------------------------------------------
\* array_open_for_reads = array_open_without_fragments + fragment loading

StartOpen(t) ==
  \E u \in Uris, k \in Keys :
    /\ xlock_mtx_ # t
    /\ OA(u).cnt < MaxRef
    /\ opens[u] < MaxRef
    /\ Call(t, "open", "owf_lock_reads", u, k)
    /\ UNCHANGED <<regVars, xVars, vfsVars, cancelVars, histVars>>
    /\ UNCHANGED <<dataVars, writeVars, noop_closes, tearVars, iterVars,
                   loadVars>>

\* supports_uri_scheme and object_type: an unsupported scheme or an object
\* that is no array returns the error before any lock is taken.
OwfReject(t) ==
  /\ pc[t] = "owf_lock_reads"
  /\ Return(t, "err")
  /\ UNCHANGED <<regVars, xVars, vfsVars, cancelVars, histVars>>
  /\ UNCHANGED <<dataVars, writeVars, noop_closes, tearVars, iterVars,
                 loadVars>>

\* std::lock_guard<std::mutex> lock{open_array_for_reads_mtx_}
OwfLockReads(t) ==
  /\ pc[t] = "owf_lock_reads"
  /\ open_array_for_reads_mtx_ = NoThread
  /\ open_array_for_reads_mtx_' = t
  /\ Goto(t, "owf_lock_x")
  /\ UNCHANGED <<open_arrays_for_reads_, xVars, vfsVars, cancelVars, histVars>>
  /\ UNCHANGED <<dataVars, writeVars, noop_closes, tearVars, iterVars,
                 loadVars>>

\* A find-or-create that drops the status of set_encryption_key and goes on
\* with the entry it found.
OwfLockXAndFind_IgnoresKey(t) ==
  /\ pc[t] = "owf_lock_x"
  /\ xlock_mtx_ = NoThread
  /\ LET u == uri[t]
         e == IF OA(u).present THEN OA(u) ELSE NewOpenArray
     IN open_arrays_for_reads_' =
          [open_arrays_for_reads_ EXCEPT ![u] = set_encryption_key(e, key[t])]
  /\ xlock_mtx_' = t
  /\ pc' = [pc EXCEPT ![t] = "owf_mtx"]
  /\ key' = [key EXCEPT ![t] = NoKey]
  /\ UNCHANGED <<op, uri, last, open_array_for_reads_mtx_>>
  /\ UNCHANGED <<xfilelocks_, vfsVars, cancelVars, histVars>>
  /\ UNCHANGED <<dataVars, writeVars, noop_closes, tearVars, iterVars,
                 loadVars>>

\* A find-or-create that registers a new entry although one is registered.
OwfLockXAndFind_AlwaysNew(t) ==
  /\ pc[t] = "owf_lock_x"
  /\ xlock_mtx_ = NoThread
  /\ open_arrays_for_reads_' =
       [open_arrays_for_reads_ EXCEPT
          ![uri[t]] = set_encryption_key(NewOpenArray, key[t])]
  /\ xlock_mtx_' = t
  /\ pc' = [pc EXCEPT ![t] = "owf_mtx"]
  /\ key' = [key EXCEPT ![t] = NoKey]
  /\ UNCHANGED <<op, uri, last, open_array_for_reads_mtx_>>
  /\ UNCHANGED <<xfilelocks_, vfsVars, cancelVars, histVars>>
  /\ UNCHANGED <<dataVars, writeVars, noop_closes, tearVars, iterVars,
                 loadVars>>

\* std::lock_guard<std::mutex> xlock{xlock_mtx_}, then find or create the
\* entry and check the key.  A key mismatch returns through both guards.
OwfLockXAndFind(t) ==
  /\ pc[t] = "owf_lock_x"
  /\ xlock_mtx_ = NoThread
  /\ LET u == uri[t]
         e == IF OA(u).present THEN OA(u) ELSE NewOpenArray
     IN IF KeyMatches(e, key[t])
        THEN /\ open_arrays_for_reads_' =
                  [open_arrays_for_reads_ EXCEPT
                     ![u] = set_encryption_key(e, key[t])]
             /\ xlock_mtx_' = t
             /\ pc' = [pc EXCEPT ![t] = "owf_mtx"]
             /\ key' = [key EXCEPT ![t] = NoKey]
             /\ UNCHANGED <<op, uri, last, open_array_for_reads_mtx_>>
        ELSE /\ open_array_for_reads_mtx_' = NoThread
             /\ Return(t, "err_key")
             /\ UNCHANGED <<open_arrays_for_reads_, xlock_mtx_>>
  /\ UNCHANGED <<xfilelocks_, vfsVars, cancelVars, histVars>>
  /\ UNCHANGED <<dataVars, writeVars, noop_closes, tearVars, iterVars,
                 loadVars>>

\* (*open_array)->mtx_lock(); cnt_incr(); then both guards go out of scope.
OwfLockEntry(t) ==
  /\ pc[t] = "owf_mtx"
  /\ OA(uri[t]).mtx = NoThread
  /\ open_arrays_for_reads_' =
       [open_arrays_for_reads_ EXCEPT
          ![uri[t]] = cnt_incr([OA(uri[t]) EXCEPT !.mtx = t])]
  /\ open_array_for_reads_mtx_' = NoThread
  /\ xlock_mtx_' = NoThread
  /\ Goto(t, "owf_filelock")
  /\ UNCHANGED <<xfilelocks_, vfsVars, cancelVars, histVars>>
  /\ UNCHANGED <<dataVars, writeVars, noop_closes, tearVars, iterVars,
                 loadVars>>

\* OpenArray::file_lock: takes the shared filelock unless the entry holds it
\* already.
file_lock(e) == [e EXCEPT !.filelock = TRUE]

\* OpenArray::set_array_schema after a successful load_array_schema.
set_array_schema(e) == [e EXCEPT !.schema = TRUE]

\* OpenArray::mtx_unlock
mtx_unlock(e) == [e EXCEPT !.mtx = NoThread]

\* The rest of array_open_without_fragments: file_lock, then
\* load_array_schema if the entry has no schema yet.  When either fails the
\* entry mutex is released and array_close_for_reads rolls the open back.
OwfFileLockAndSchema(t) ==
  /\ pc[t] = "owf_filelock"
  /\ LET u == uri[t]
         locked == file_lock(OA(u))
         got == IF OA(u).filelock THEN 0 ELSE 1
     IN \/ \* both succeed
           /\ open_arrays_for_reads_' =
                [open_arrays_for_reads_ EXCEPT ![u] = set_array_schema(locked)]
           /\ vfs_shared' = [vfs_shared EXCEPT ![u] = @ + got]
           /\ Goto(t, "ofr_frags")
        \/ \* vfs_->filelock_lock fails
           /\ ~OA(u).filelock
           /\ open_arrays_for_reads_' =
                [open_arrays_for_reads_ EXCEPT ![u] = mtx_unlock(OA(u))]
           /\ Goto(t, "acf_lock")
           /\ UNCHANGED vfs_shared
        \/ \* load_array_schema fails
           /\ ~OA(u).schema
           /\ open_arrays_for_reads_' =
                [open_arrays_for_reads_ EXCEPT ![u] = mtx_unlock(locked)]
           /\ vfs_shared' = [vfs_shared EXCEPT ![u] = @ + got]
           /\ Goto(t, "acf_lock")
  /\ UNCHANGED <<open_array_for_reads_mtx_, xVars, vfs_excl, cancelVars,
                 histVars>>
  /\ UNCHANGED <<dataVars, writeVars, noop_closes, tearVars, iterVars,
                 loadVars>>

\* get_fragment_uris, get_sorted_fragment_uris, load_fragment_metadata.
\* A failing get_fragment_uris returns at once (RETURN_NOT_OK), with the
\* entry mutex still locked; a failing load_fragment_metadata unlocks the
\* entry and closes the array; success unlocks the entry.
OfrLoadFragments(t) ==
  /\ pc[t] = "ofr_frags"
  /\ LET u == uri[t] IN
     \/ /\ open_arrays_for_reads_' =
             [open_arrays_for_reads_ EXCEPT ![u] = mtx_unlock(OA(u))]
        /\ Return(t, "ok")
        /\ OpenReturned(t)
     \/ /\ Return(t, "err")
        /\ UNCHANGED <<open_arrays_for_reads_, opens>>
     \/ /\ open_arrays_for_reads_' =
             [open_arrays_for_reads_ EXCEPT ![u] = mtx_unlock(OA(u))]
        /\ Goto(t, "acf_lock")
        /\ UNCHANGED opens
  /\ UNCHANGED <<open_array_for_reads_mtx_, xVars, vfsVars, cancelVars,
                 xlocked, calls>>
  /\ UNCHANGED <<dataVars, writeVars, noop_closes, tearVars, iterVars,
                 loadVars>>

--------------------------------------------------------------------------
\* array_close_for_reads, as an API call and as the rollback of a failed
\* array_open_for_reads / array_reopen

\* The callers pair their calls: array_close_for_reads is called for an open
\* that has not been closed yet, or on a URI that is not open.
StartClose(t) ==
  \E u \in Uris :
    /\ opens[u] > 0 \/ ~OA(u).present
    /\ Call(t, "close", "acf_lock", u, NoKey)
    /\ CloseCalled(u)
    /\ UNCHANGED <<regVars, xVars, vfsVars, cancelVars, xlocked, calls>>
    /\ UNCHANGED <<dataVars, writeVars, noop_closes, tearVars, iterVars,
                   loadVars>>

\* lock_guard on the registry mutex and the lookup: a URI that is not open
\* returns Ok.
AcfLockAndFind(t) ==
  /\ pc[t] = "acf_lock"
  /\ open_array_for_reads_mtx_ = NoThread
  /\ IF OA(uri[t]).present
     THEN /\ open_array_for_reads_mtx_' = t
          /\ Goto(t, "acf_mtx")
          /\ UNCHANGED noop_closes
     ELSE /\ Return(t, CloseStatus(t, "ok"))
          /\ CountNoop(t, "close", "reads",
                       open_arrays_for_writes_[uri[t]].present)
          /\ UNCHANGED open_array_for_reads_mtx_
  /\ UNCHANGED <<open_arrays_for_reads_, xVars, vfsVars, cancelVars, histVars>>
  /\ UNCHANGED <<dataVars, writeVars, tearVars, iterVars, loadVars>>

\* OpenArray::file_unlock: releases the shared filelock if the entry holds
\* one.
file_unlock(e) == [e EXCEPT !.filelock = FALSE]

\* A close that erases the entry of the last reader without file_unlock.
AcfDecrement_NoUnlock(t) ==
  /\ pc[t] = "acf_mtx"
  /\ OA(uri[t]).mtx = NoThread
  /\ LET u == uri[t]
         e == cnt_decr(OA(u))
     IN open_arrays_for_reads_' =
          [open_arrays_for_reads_ EXCEPT
             ![u] = IF e.cnt = 0 THEN NoEntry ELSE e]
  /\ NotifyAllAndReturn(t, CloseStatus(t, "ok"))
  /\ open_array_for_reads_mtx_' = NoThread
  /\ UNCHANGED <<xVars, vfsVars, cancelVars, histVars>>
  /\ UNCHANGED <<dataVars, writeVars, noop_closes, tearVars, iterVars,
                 loadVars>>

\* mtx_lock, cnt_decr and, when the counter is 0, file_unlock, delete and
\* erase; then notify_all.  The registry mutex is held throughout and is
\* released by the guard on return.
AcfDecrement(t) ==
  /\ pc[t] = "acf_mtx"
  /\ OA(uri[t]).mtx = NoThread
  /\ LET u == uri[t]
         e == cnt_decr(OA(u))
     IN IF e.cnt = 0
        THEN \/ \* file_unlock succeeds: delete open_array; erase(it)
                /\ open_arrays_for_reads_' =
                     [open_arrays_for_reads_ EXCEPT ![u] = NoEntry]
                /\ vfs_shared' =
                     [vfs_shared EXCEPT ![u] = IF e.filelock THEN @ - 1 ELSE @]
                /\ NotifyAllAndReturn(t, CloseStatus(t, "ok"))
             \/ \* vfs_->filelock_unlock fails: the entry stays, counter 0
                /\ e.filelock
                /\ open_arrays_for_reads_' =
                     [open_arrays_for_reads_ EXCEPT ![u] = e]
                /\ Return(t, CloseStatus(t, "err"))
                /\ UNCHANGED vfs_shared
        ELSE /\ open_arrays_for_reads_' =
                  [open_arrays_for_reads_ EXCEPT ![u] = e]
             /\ NotifyAllAndReturn(t, CloseStatus(t, "ok"))
             /\ UNCHANGED vfs_shared
  /\ open_array_for_reads_mtx_' = NoThread
  /\ UNCHANGED <<xVars, vfs_excl, cancelVars, histVars>>
  /\ UNCHANGED <<dataVars, writeVars, noop_closes, tearVars, iterVars,
                 loadVars>>

--------------------------------------------------------------------------
\* array_open_for_writes and array_close_for_writes

OW(u) == open_arrays_for_writes_[u]

\* Status of a finished array_close_for_writes: the status of the API call,
\* or the error that made array_open_for_writes roll back.
CloseWStatus(t, st) == IF op[t] = "closew" THEN st ELSE "err"

StartOpenW(t) ==
  \E u \in Uris, k \in Keys :
    /\ OW(u).cnt < MaxRef
    /\ Call(t, "openw", "oww_lock", u, k)
    /\ UNCHANGED <<regVars, writeVars, xVars, vfsVars, cancelVars, histVars>>
    /\ UNCHANGED <<dataVars, noop_closes, tearVars, iterVars, loadVars>>

\* supports_uri_scheme and object_type: an unsupported scheme or an object
\* that is no array returns the error before any lock is taken.
OwwReject(t) ==
  /\ pc[t] = "oww_lock"
  /\ Return(t, "err")
  /\ UNCHANGED <<regVars, writeVars, xVars, vfsVars, cancelVars, histVars>>
  /\ UNCHANGED <<dataVars, noop_closes, tearVars, iterVars, loadVars>>

\* An open for writes that locks xlock_mtx_ with the registry mutex, as the
\* open for reads does.
OwwLockAndFind_TakesXlock(t) ==
  /\ pc[t] = "oww_lock"
  /\ open_array_for_writes_mtx_ = NoThread
  /\ xlock_mtx_ = NoThread
  /\ LET u == uri[t]
         e == IF OW(u).present THEN OW(u) ELSE NewOpenArray
     IN IF KeyMatches(e, key[t])
        THEN /\ open_arrays_for_writes_' =
                  [open_arrays_for_writes_ EXCEPT
                     ![u] = set_encryption_key(e, key[t])]
             /\ open_array_for_writes_mtx_' = t
             /\ pc' = [pc EXCEPT ![t] = "oww_mtx"]
             /\ key' = [key EXCEPT ![t] = NoKey]
             /\ UNCHANGED <<op, uri, last>>
        ELSE /\ Return(t, "err_key")
             /\ UNCHANGED <<writeVars, noop_closes, tearVars, iterVars,
                            loadVars>>
  /\ UNCHANGED <<regVars, xVars, vfsVars, cancelVars, histVars>>
  /\ UNCHANGED <<dataVars, noop_closes, tearVars, iterVars, loadVars>>

\* An open for writes that loads the schema under the registry mutex, before
\* it locks the mutex of the entry.
OwwLockAndFind_LoadsSchema(t) ==
  /\ pc[t] = "oww_lock"
  /\ open_array_for_writes_mtx_ = NoThread
  /\ LET u == uri[t]
         e == IF OW(u).present THEN OW(u) ELSE NewOpenArray
     IN IF KeyMatches(e, key[t])
        THEN /\ open_arrays_for_writes_' =
                  [open_arrays_for_writes_ EXCEPT
                     ![u] = set_array_schema(set_encryption_key(e, key[t]))]
             /\ open_array_for_writes_mtx_' = t
             /\ pc' = [pc EXCEPT ![t] = "oww_mtx"]
             /\ key' = [key EXCEPT ![t] = NoKey]
             /\ UNCHANGED <<op, uri, last>>
        ELSE /\ Return(t, "err_key")
             /\ UNCHANGED writeVars
  /\ UNCHANGED <<regVars, xVars, vfsVars, cancelVars, histVars>>
  /\ UNCHANGED <<dataVars, noop_closes, tearVars, iterVars, loadVars>>

\* std::lock_guard<std::mutex> lock{open_array_for_writes_mtx_}, then find
\* or create the entry and check the key.  A key mismatch returns through
\* the guard.
OwwLockAndFind(t) ==
  /\ pc[t] = "oww_lock"
  /\ open_array_for_writes_mtx_ = NoThread
  /\ LET u == uri[t]
         e == IF OW(u).present THEN OW(u) ELSE NewOpenArray
     IN IF KeyMatches(e, key[t])
        THEN /\ open_arrays_for_writes_' =
                  [open_arrays_for_writes_ EXCEPT
                     ![u] = set_encryption_key(e, key[t])]
             /\ open_array_for_writes_mtx_' = t
             /\ pc' = [pc EXCEPT ![t] = "oww_mtx"]
             /\ key' = [key EXCEPT ![t] = NoKey]
             /\ UNCHANGED <<op, uri, last>>
        ELSE /\ Return(t, "err_key")
             /\ UNCHANGED <<writeVars, noop_closes, tearVars, iterVars,
                            loadVars>>
  /\ UNCHANGED <<regVars, xVars, vfsVars, cancelVars, histVars>>
  /\ UNCHANGED <<dataVars, noop_closes, tearVars, iterVars, loadVars>>

\* open_array->mtx_lock(); cnt_incr(); then the guard goes out of scope.
OwwLockEntry(t) ==
  /\ pc[t] = "oww_mtx"
  /\ OW(uri[t]).mtx = NoThread
  /\ open_arrays_for_writes_' =
       [open_arrays_for_writes_ EXCEPT
          ![uri[t]] = cnt_incr([OW(uri[t]) EXCEPT !.mtx = t])]
  /\ open_array_for_writes_mtx_' = NoThread
  /\ Goto(t, "oww_schema")
  /\ UNCHANGED <<regVars, xVars, vfsVars, cancelVars, histVars>>
  /\ UNCHANGED <<dataVars, noop_closes, tearVars, iterVars, loadVars>>

\* load_array_schema if the entry has no schema yet, with no filelock.  When
\* it fails the entry mutex is released and array_close_for_writes rolls the
\* open back; otherwise the entry mutex is released and the call returns Ok.
OwwSchema(t) ==
  /\ pc[t] = "oww_schema"
  /\ LET u == uri[t] IN
     \/ /\ open_arrays_for_writes_' =
             [open_arrays_for_writes_ EXCEPT
                ![u] = mtx_unlock(set_array_schema(OW(u)))]
        /\ Return(t, "ok")
     \/ /\ ~OW(u).schema
        /\ open_arrays_for_writes_' =
             [open_arrays_for_writes_ EXCEPT ![u] = mtx_unlock(OW(u))]
        /\ Goto(t, "acw_lock")
  /\ UNCHANGED <<regVars, open_array_for_writes_mtx_, xVars, vfsVars,
                 cancelVars, histVars>>
  /\ UNCHANGED <<dataVars, noop_closes, tearVars, iterVars, loadVars>>

StartCloseW(t) ==
  \E u \in Uris :
    /\ Call(t, "closew", "acw_lock", u, NoKey)
    /\ UNCHANGED <<regVars, writeVars, xVars, vfsVars, cancelVars, histVars>>
    /\ UNCHANGED <<dataVars, noop_closes, tearVars, iterVars, loadVars>>

\* A close for writes that registers an entry for a URI that is not open.
AcwLockAndFind_Registers(t) ==
  /\ pc[t] = "acw_lock"
  /\ open_array_for_writes_mtx_ = NoThread
  /\ IF OW(uri[t]).present
     THEN /\ open_array_for_writes_mtx_' = t
          /\ Goto(t, "acw_mtx")
          /\ UNCHANGED noop_closes
          /\ UNCHANGED open_arrays_for_writes_
     ELSE /\ Return(t, CloseWStatus(t, "ok"))
          /\ CountNoop(t, "closew", "writes", OA(uri[t]).present)
          /\ open_arrays_for_writes_' =
               [open_arrays_for_writes_ EXCEPT ![uri[t]] = NewOpenArray]
          /\ UNCHANGED open_array_for_writes_mtx_
  /\ UNCHANGED <<regVars, xVars, vfsVars, cancelVars, histVars>>
  /\ UNCHANGED <<dataVars, tearVars, iterVars, loadVars>>

\* lock_guard on the registry mutex and the lookup: a URI that is not open
\* returns Ok.
AcwLockAndFind(t) ==
  /\ pc[t] = "acw_lock"
  /\ open_array_for_writes_mtx_ = NoThread
  /\ IF OW(uri[t]).present
     THEN /\ open_array_for_writes_mtx_' = t
          /\ Goto(t, "acw_mtx")
          /\ UNCHANGED noop_closes
     ELSE /\ Return(t, CloseWStatus(t, "ok"))
          /\ CountNoop(t, "closew", "writes", OA(uri[t]).present)
          /\ UNCHANGED open_array_for_writes_mtx_
  /\ UNCHANGED <<regVars, open_arrays_for_writes_, xVars, vfsVars, cancelVars,
                 histVars>>
  /\ UNCHANGED <<dataVars, tearVars, iterVars, loadVars>>

\* mtx_lock, cnt_decr and, when the counter is 0, delete and erase.  The
\* registry mutex is held throughout and is released by the guard on return.
AcwDecrement(t) ==
  /\ pc[t] = "acw_mtx"
  /\ OW(uri[t]).mtx = NoThread
  /\ LET u == uri[t]
         e == cnt_decr(OW(u))
     IN open_arrays_for_writes_' =
          [open_arrays_for_writes_ EXCEPT
             ![u] = IF e.cnt = 0 THEN NoEntry ELSE e]
  /\ open_array_for_writes_mtx_' = NoThread
  /\ Return(t, CloseWStatus(t, "ok"))
  /\ UNCHANGED <<regVars, xVars, vfsVars, cancelVars, histVars>>
  /\ UNCHANGED <<dataVars, noop_closes, tearVars, iterVars, loadVars>>

--------------------------------------------------------------------------
\* array_reopen

\* array_reopen is called for an open that has not been closed yet, or on a
\* URI that is not open.
StartReopen(t) ==
  \E u \in Uris, k \in Keys :
    /\ opens[u] > 0 \/ ~OA(u).present
    /\ OA(u).cnt >= 0
    /\ Call(t, "reopen", "ar_lock", u, k)
    /\ UNCHANGED <<regVars, xVars, vfsVars, cancelVars, histVars>>
    /\ UNCHANGED <<dataVars, writeVars, noop_closes, tearVars, iterVars,
                   loadVars>>

\* lock_guard on the registry mutex, the lookup and the key check: an array
\* that is not open and a key mismatch return the error through the guard.
ArLockAndFind(t) ==
  /\ pc[t] = "ar_lock"
  /\ open_array_for_reads_mtx_ = NoThread
  /\ IF OA(uri[t]).present /\ KeyMatches(OA(uri[t]), key[t])
     THEN /\ open_array_for_reads_mtx_' = t
          /\ open_arrays_for_reads_' =
               [open_arrays_for_reads_ EXCEPT
                  ![uri[t]] = set_encryption_key(OA(uri[t]), key[t])]
          /\ pc' = [pc EXCEPT ![t] = "ar_mtx"]
          /\ key' = [key EXCEPT ![t] = NoKey]
          /\ UNCHANGED <<op, uri, last>>
     ELSE /\ Return(t, IF OA(uri[t]).present THEN "err_key" ELSE "err")
          /\ UNCHANGED regVars
  /\ UNCHANGED <<xVars, vfsVars, cancelVars, histVars>>
  /\ UNCHANGED <<dataVars, writeVars, noop_closes, tearVars, iterVars,
                 loadVars>>

\* open_array->mtx_lock(), then the guard goes out of scope.
ArLockEntry(t) ==
  /\ pc[t] = "ar_mtx"
  /\ OA(uri[t]).mtx = NoThread
  /\ open_arrays_for_reads_' =
       [open_arrays_for_reads_ EXCEPT ![uri[t]].mtx = t]
  /\ open_array_for_reads_mtx_' = NoThread
  /\ Goto(t, "ar_frags")
  /\ UNCHANGED <<xVars, vfsVars, cancelVars, histVars>>
  /\ UNCHANGED <<dataVars, writeVars, noop_closes, tearVars, iterVars,
                 loadVars>>

\* get_fragment_uris, get_sorted_fragment_uris, load_fragment_metadata: as in
\* array_open_for_reads, a failing get_fragment_uris returns with the entry
\* mutex locked and a failing load_fragment_metadata unlocks the entry and
\* calls array_close_for_reads.
ArLoadFragments(t) ==
  /\ pc[t] = "ar_frags"
  /\ LET u == uri[t] IN
     \/ /\ open_arrays_for_reads_' =
             [open_arrays_for_reads_ EXCEPT ![u] = mtx_unlock(OA(u))]
        /\ Return(t, "ok")
     \/ /\ Return(t, "err")
        /\ UNCHANGED open_arrays_for_reads_
     \/ /\ open_arrays_for_reads_' =
             [open_arrays_for_reads_ EXCEPT ![u] = mtx_unlock(OA(u))]
        /\ Goto(t, "acf_lock")
  /\ UNCHANGED <<open_array_for_reads_mtx_, xVars, vfsVars, cancelVars,
                 histVars>>
  /\ UNCHANGED <<dataVars, writeVars, noop_closes, tearVars, iterVars,
                 loadVars>>

--------------------------------------------------------------------------
\* array_xlock / array_xunlock

\* A thread does not lock xlock_mtx_ (a std::mutex) while it owns it.
StartXlock(t) ==
  \E u \in Uris :
    /\ xlock_mtx_ # t
    /\ Call(t, "xlock", "xl_lock_x", u, NoKey)
    /\ UNCHANGED <<regVars, xVars, vfsVars, cancelVars, histVars>>
    /\ UNCHANGED <<dataVars, writeVars, noop_closes, tearVars, iterVars,
                   loadVars>>

\* xlock_mtx_.lock()
XlLockX(t) ==
  /\ pc[t] = "xl_lock_x"
  /\ xlock_mtx_ = NoThread
  /\ xlock_mtx_' = t
  /\ Goto(t, "xl_lock_reads")
  /\ UNCHANGED <<regVars, xfilelocks_, vfsVars, cancelVars, histVars>>
  /\ UNCHANGED <<dataVars, writeVars, noop_closes, tearVars, iterVars,
                 loadVars>>

\* An array_xlock that takes the registry mutex and does not wait for the
\* array to leave the registry.
XlLockReadsAndTest_NoWait(t) ==
  /\ pc[t] = "xl_lock_reads"
  /\ open_array_for_reads_mtx_ = NoThread
  /\ open_array_for_reads_mtx_' = t
  /\ Goto(t, "xl_filelock")
  /\ UNCHANGED <<open_arrays_for_reads_, xVars, vfsVars, cancelVars, histVars>>
  /\ UNCHANGED <<dataVars, writeVars, noop_closes, tearVars, iterVars,
                 loadVars>>

\* The unique_lock on the registry mutex (taken first, or taken again after a
\* wake-up) and one evaluation of the predicate of xlock_cv_.wait: when the
\* array is in the registry the wait releases the mutex and blocks.
XlLockReadsAndTest(t) ==
  /\ pc[t] = "xl_lock_reads"
  /\ open_array_for_reads_mtx_ = NoThread
  /\ IF ~OA(uri[t]).present
     THEN /\ open_array_for_reads_mtx_' = t
          /\ Goto(t, "xl_filelock")
     ELSE /\ Goto(t, "xl_waiting")
          /\ UNCHANGED open_array_for_reads_mtx_
  /\ UNCHANGED <<open_arrays_for_reads_, xVars, vfsVars, cancelVars, histVars>>
  /\ UNCHANGED <<dataVars, writeVars, noop_closes, tearVars, iterVars,
                 loadVars>>

\* A condition variable may wake up without a notification.
XlSpuriousWake(t) ==
  /\ pc[t] = "xl_waiting"
  /\ Goto(t, "xl_lock_reads")
  /\ UNCHANGED <<regVars, xVars, vfsVars, cancelVars, histVars>>
  /\ UNCHANGED <<dataVars, writeVars, noop_closes, tearVars, iterVars,
                 loadVars>>

\* An array_xlock that leaves xlock_mtx_ locked when filelock_lock fails.
XlFileLock_KeepsMutex(t) ==
  /\ pc[t] = "xl_filelock"
  /\ LET u == uri[t] IN
     \/ /\ xfilelocks_' = xfilelocks_ \cup {u}
        /\ vfs_excl' = [vfs_excl EXCEPT ![u] = TRUE]
        /\ xlocked' = xlocked \cup {u}
        /\ Return(t, "ok")
     \/ /\ Return(t, "err")
        /\ UNCHANGED <<xfilelocks_, vfs_excl, xlocked>>
  /\ open_array_for_reads_mtx_' = NoThread
  /\ UNCHANGED <<open_arrays_for_reads_, xlock_mtx_, vfs_shared, cancelVars,
                 opens, calls>>
  /\ UNCHANGED <<dataVars, writeVars, noop_closes, tearVars, iterVars,
                 loadVars>>

\* An array_xlock that returns the error of filelock_lock without unlocking
\* xlock_mtx_.
XlFileLock_KeepsXlockOnError(t) ==
  /\ pc[t] = "xl_filelock"
  /\ LET u == uri[t] IN
     \/ /\ xfilelocks_' = xfilelocks_ \cup {u}
        /\ vfs_excl' = [vfs_excl EXCEPT ![u] = TRUE]
        /\ xlocked' = xlocked \cup {u}
        /\ Return(t, "ok")
        /\ UNCHANGED xlock_mtx_
     \/ /\ Return(t, "err")
        /\ UNCHANGED <<xlock_mtx_, xfilelocks_, vfs_excl, xlocked>>
  /\ open_array_for_reads_mtx_' = NoThread
  /\ UNCHANGED <<open_arrays_for_reads_, vfs_shared, cancelVars, opens, calls>>
  /\ UNCHANGED <<dataVars, writeVars, noop_closes, tearVars, iterVars,
                 loadVars>>

\* vfs_->filelock_lock(lock_uri, &filelock, false) with both mutexes held:
\* on success the filelock is recorded and xlock_mtx_ stays locked, on
\* failure xlock_mtx_ is unlocked; the unique_lock releases the registry.
XlFileLock(t) ==
  /\ pc[t] = "xl_filelock"
  /\ LET u == uri[t] IN
     \/ /\ xfilelocks_' = xfilelocks_ \cup {u}
        /\ vfs_excl' = [vfs_excl EXCEPT ![u] = TRUE]
        /\ xlocked' = xlocked \cup {u}
        /\ Return(t, "ok")
        /\ UNCHANGED xlock_mtx_
     \/ /\ xlock_mtx_' = NoThread
        /\ Return(t, "err")
        /\ UNCHANGED <<xfilelocks_, vfs_excl, xlocked>>
  /\ open_array_for_reads_mtx_' = NoThread
  /\ UNCHANGED <<open_arrays_for_reads_, vfs_shared, cancelVars, opens, calls>>
  /\ UNCHANGED <<dataVars, writeVars, noop_closes, tearVars, iterVars,
                 loadVars>>

\* An array_xunlock that releases the filelock and the mutex and leaves the
\* filelock in xfilelocks_.
ArrayXunlock_NoErase(t) ==
  \E u \in Uris :
    /\ xlock_mtx_ = t \/ u \notin xfilelocks_
    /\ pc[t] = "idle"
    /\ uri' = [uri EXCEPT ![t] = u]
    /\ UNCHANGED <<pc, op, key>>
    /\ \/ /\ u \notin xfilelocks_
          /\ last' = [last EXCEPT ![t] = "err_nolock"]
          /\ UNCHANGED <<xVars, vfs_excl, xlocked>>
       \/ /\ u \in xfilelocks_
          /\ last' = [last EXCEPT ![t] = "err"]
          /\ UNCHANGED <<xVars, vfs_excl, xlocked>>
       \/ /\ u \in xfilelocks_
          /\ last' = [last EXCEPT ![t] = "ok"]
          /\ vfs_excl' = [vfs_excl EXCEPT ![u] = FALSE]
          /\ xlock_mtx_' = NoThread
          /\ xlocked' = xlocked \ {u}
          /\ UNCHANGED xfilelocks_
    /\ UNCHANGED <<regVars, vfs_shared, cancelVars, opens, calls>>
    /\ UNCHANGED <<dataVars, writeVars, noop_closes, tearVars, iterVars,
                   loadVars>>

\* An array_xunlock that unlocks xlock_mtx_ before it finds that no filelock
\* is recorded.
ArrayXunlock_UnlocksFirst(t) ==
  \E u \in Uris :
    /\ xlock_mtx_ = t \/ u \notin xfilelocks_
    /\ pc[t] = "idle"
    /\ uri' = [uri EXCEPT ![t] = u]
    /\ UNCHANGED <<pc, op, key>>
    /\ \/ /\ u \notin xfilelocks_
          /\ last' = [last EXCEPT ![t] = "err_nolock"]
          /\ xlock_mtx_' = NoThread
          /\ UNCHANGED <<xfilelocks_, vfs_excl, xlocked>>
       \/ /\ u \in xfilelocks_
          /\ last' = [last EXCEPT ![t] = "err"]
          /\ UNCHANGED <<xVars, vfs_excl, xlocked>>
       \/ /\ u \in xfilelocks_
          /\ last' = [last EXCEPT ![t] = "ok"]
          /\ xfilelocks_' = xfilelocks_ \ {u}
          /\ vfs_excl' = [vfs_excl EXCEPT ![u] = FALSE]
          /\ xlock_mtx_' = NoThread
          /\ xlocked' = xlocked \ {u}
    /\ UNCHANGED <<regVars, vfs_shared, cancelVars, opens, calls>>
    /\ UNCHANGED <<dataVars, writeVars, noop_closes, tearVars, iterVars,
                   loadVars>>

\* array_xunlock is called by the thread that owns xlock_mtx_, or for a URI
\* with no recorded filelock.  No recorded filelock is the error "Filelock
\* not found"; a failing filelock_unlock returns with the filelock recorded
\* and xlock_mtx_ locked.
ArrayXunlock(t) ==
  \E u \in Uris :
    /\ xlock_mtx_ = t \/ u \notin xfilelocks_
    /\ pc[t] = "idle"
    /\ uri' = [uri EXCEPT ![t] = u]
    /\ UNCHANGED <<pc, op, key>>
    /\ \/ /\ u \notin xfilelocks_
          /\ last' = [last EXCEPT ![t] = "err_nolock"]
          /\ UNCHANGED <<xVars, vfs_excl, xlocked>>
       \/ /\ u \in xfilelocks_
          /\ last' = [last EXCEPT ![t] = "err"]
          /\ UNCHANGED <<xVars, vfs_excl, xlocked>>
       \/ /\ u \in xfilelocks_
          /\ last' = [last EXCEPT ![t] = "ok"]
          /\ xfilelocks_' = xfilelocks_ \ {u}
          /\ vfs_excl' = [vfs_excl EXCEPT ![u] = FALSE]
          /\ xlock_mtx_' = NoThread
          /\ xlocked' = xlocked \ {u}
    /\ UNCHANGED <<regVars, vfs_shared, cancelVars, opens, calls>>
    /\ UNCHANGED <<dataVars, writeVars, noop_closes, tearVars, iterVars,
                   loadVars>>

--------------------------------------------------------------------------
\* cancel_all_tasks and query_submit

\* The tasks of cancelable_tasks_ that wait for a worker.
Queued == {k \in TaskIds : tasks[k] = "queued"}

\* The tasks enqueued whose run closure has not ended and whose cancel
\* closure has not run.
Submitted == {k \in TaskIds : tasks[k] \in {"queued", "running"}}

\* CancelableTasks::cancel_all_tasks on the task table
cancel_queued(ts) ==
  [k \in TaskIds |-> IF ts[k] = "queued" THEN "cancelled" ELSE ts[k]]

\* The run closure of task k has returned.
finish(ts, k) == IF k = NoTask THEN ts ELSE [ts EXCEPT ![k] = "done"]

\* queries_in_progress_cv_.notify_all(): the sleeping threads test the
\* predicate of their wait again.
notify_all(p) ==
  [x \in Threads |-> IF p[x] = "cat_sleeping" THEN "cat_wait" ELSE p[x]]

\* The call of thread t returns status st after a notify_all.
ReturnAndNotify(t, st) ==
  /\ pc' = notify_all([pc EXCEPT ![t] = "idle"])
  /\ op' = [op EXCEPT ![t] = "none"]
  /\ key' = [key EXCEPT ![t] = NoKey]
  /\ last' = [last EXCEPT ![t] = st]
  /\ UNCHANGED uri

\* StorageManager::cancellation_in_progress(): the flag, read under its
\* mutex.
cancellation_in_progress == cancellation_in_progress_

\* A call of cancel_all_tasks is in progress.
Cancelling(t) ==
  pc[t] \in {"cat_check", "cat_cancel", "cat_wait", "cat_sleeping",
            "cat_reset"}

\* The call of thread t is over: its record of the earlier tasks ends.
Forget(t) == before_k' = [before_k EXCEPT ![t] = {}]

StartCancel(t) ==
  /\ Call(t, "cancel", "cat_check", "A", NoKey)
  /\ before_k' = [before_k EXCEPT ![t] = Submitted]
  /\ UNCHANGED <<regVars, xVars, vfsVars, histVars>>
  /\ UNCHANGED <<cancellation_in_progress_, queries_in_progress_, tasks,
                 cur_task>>
  /\ UNCHANGED <<dataVars, writeVars, noop_closes, tearVars, iterVars,
                 loadVars>>

\* A check of the flag that does not set it.
CatCheckAndSet_NoSet(t) ==
  /\ pc[t] = "cat_check"
  /\ IF ~cancellation_in_progress_
     THEN /\ Goto(t, "cat_cancel")
          /\ UNCHANGED before_k
     ELSE /\ Return(t, "ok")
          /\ Forget(t)
  /\ UNCHANGED <<regVars, xVars, vfsVars, histVars>>
  /\ UNCHANGED <<cancellation_in_progress_, queries_in_progress_, tasks,
                 cur_task>>
  /\ UNCHANGED <<dataVars, writeVars, noop_closes, tearVars, iterVars,
                 loadVars>>

\* The check-and-set of cancellation_in_progress_ under its mutex; a call
\* that finds the flag set returns Ok.
CatCheckAndSet(t) ==
  /\ pc[t] = "cat_check"
  /\ IF ~cancellation_in_progress_
     THEN /\ cancellation_in_progress_' = TRUE
          /\ Goto(t, "cat_cancel")
          /\ UNCHANGED before_k
     ELSE /\ Return(t, "ok")
          /\ Forget(t)
          /\ UNCHANGED cancellation_in_progress_
  /\ UNCHANGED <<regVars, xVars, vfsVars, histVars>>
  /\ UNCHANGED <<queries_in_progress_, tasks, cur_task>>
  /\ UNCHANGED <<dataVars, writeVars, noop_closes, tearVars, iterVars,
                 loadVars>>

\* A cancellation that aborts the calls waiting on xlock_cv_: they return an
\* error and unlock xlock_mtx_.
CatCancelTasks_AbortsXlock(t) ==
  /\ pc[t] = "cat_cancel"
  /\ pc' = [x \in Threads |->
              IF x = t THEN "cat_wait"
              ELSE IF pc[x] = "xl_waiting" THEN "idle" ELSE pc[x]]
  /\ op' = [x \in Threads |-> IF pc[x] = "xl_waiting" THEN "none" ELSE op[x]]
  /\ last' = [x \in Threads |-> IF pc[x] = "xl_waiting" THEN "err" ELSE last[x]]
  /\ xlock_mtx_' =
       IF \E x \in Threads : pc[x] = "xl_waiting" THEN NoThread ELSE xlock_mtx_
  /\ tasks' = cancel_queued(tasks)
  /\ before_k' = [c \in Threads |-> before_k[c] \ Queued]
  /\ UNCHANGED <<uri, key, regVars, xfilelocks_, vfsVars, histVars>>
  /\ UNCHANGED <<cancellation_in_progress_, queries_in_progress_, cur_task>>
  /\ UNCHANGED <<dataVars, writeVars, noop_closes, tearVars, iterVars,
                 loadVars>>

\* A cancellation that also runs the cancel closure of the tasks whose run
\* closure has started.
CatCancelTasks_CancelsStarted(t) ==
  /\ pc[t] = "cat_cancel"
  /\ Goto(t, "cat_wait")
  /\ tasks' = [k \in TaskIds |->
                 IF tasks[k] \in {"queued", "running"} THEN "cancelled"
                 ELSE tasks[k]]
  /\ before_k' = [c \in Threads |-> before_k[c] \ Queued]
  /\ UNCHANGED <<regVars, xVars, vfsVars, histVars>>
  /\ UNCHANGED <<cancellation_in_progress_, queries_in_progress_, cur_task>>
  /\ UNCHANGED <<dataVars, writeVars, noop_closes, tearVars, iterVars,
                 loadVars>>

\* cancelable_tasks_.cancel_all_tasks(): the cancel closure (query->cancel())
\* of every task that has not started runs; vfs_->cancel_all_tasks()
CatCancelTasks(t) ==
  /\ pc[t] = "cat_cancel"
  /\ Goto(t, "cat_wait")
  /\ tasks' = cancel_queued(tasks)
  /\ before_k' = [c \in Threads |-> before_k[c] \ Queued]
  /\ UNCHANGED <<regVars, xVars, vfsVars, histVars>>
  /\ UNCHANGED <<cancellation_in_progress_, queries_in_progress_, cur_task>>
  /\ UNCHANGED <<dataVars, writeVars, noop_closes, tearVars, iterVars,
                 loadVars>>

\* A wait_for_zero_in_progress that returns without looking at the counter.
CatWaitZero_NoWait(t) ==
  /\ pc[t] = "cat_wait"
  /\ Goto(t, "cat_reset")
  /\ UNCHANGED <<regVars, xVars, vfsVars, cancelVars, histVars>>
  /\ UNCHANGED <<dataVars, writeVars, noop_closes, tearVars, iterVars,
                 loadVars>>

\* wait_for_zero_in_progress: the predicate is tested under
\* queries_in_progress_mtx_; when it is false the thread sleeps on
\* queries_in_progress_cv_
CatWaitZero(t) ==
  /\ pc[t] = "cat_wait"
  /\ IF queries_in_progress_ = 0
     THEN Goto(t, "cat_reset")
     ELSE Goto(t, "cat_sleeping")
  /\ UNCHANGED <<regVars, xVars, vfsVars, cancelVars, histVars>>
  /\ UNCHANGED <<dataVars, writeVars, noop_closes, tearVars, iterVars,
                 loadVars>>

\* A thread that sleeps on queries_in_progress_cv_ wakes up without a
\* notification and tests the predicate again.
CatSpuriousWake(t) ==
  /\ pc[t] = "cat_sleeping"
  /\ Goto(t, "cat_wait")
  /\ UNCHANGED <<regVars, xVars, vfsVars, cancelVars, histVars>>
  /\ UNCHANGED <<dataVars, writeVars, noop_closes, tearVars, iterVars,
                 loadVars>>

\* A cancellation that returns with the flag still set.
CatReset_KeepsFlag(t) ==
  /\ pc[t] = "cat_reset"
  /\ Return(t, "ok")
  /\ Forget(t)
  /\ UNCHANGED <<regVars, xVars, vfsVars, histVars>>
  /\ UNCHANGED <<cancellation_in_progress_, queries_in_progress_, tasks,
                 cur_task>>
  /\ UNCHANGED <<dataVars, writeVars, noop_closes, tearVars, iterVars,
                 loadVars>>

\* cancellation_in_progress_ = false under its mutex; return Ok
CatReset(t) ==
  /\ pc[t] = "cat_reset"
  /\ cancellation_in_progress_' = FALSE
  /\ Return(t, "ok")
  /\ Forget(t)
  /\ UNCHANGED <<regVars, xVars, vfsVars, histVars>>
  /\ UNCHANGED <<queries_in_progress_, tasks, cur_task>>
  /\ UNCHANGED <<dataVars, writeVars, noop_closes, tearVars, iterVars,
                 loadVars>>

\* query_submit is entered: the statistics and the checks that precede the
\* scope guard
QuerySubmit(t) ==
  /\ Call(t, "query", "qs_enter", "A", NoKey)
  /\ UNCHANGED <<regVars, xVars, vfsVars, cancelVars, histVars>>
  /\ UNCHANGED <<dataVars, writeVars, noop_closes, tearVars, iterVars,
                 loadVars>>

\* query_submit_async -> async_push_query: cancelable_tasks_.enqueue of the
\* run closure and the cancel closure of a query; returns Ok
QuerySubmitAsync(t) ==
  \E k \in TaskIds :
    /\ pc[t] = "idle"
    /\ tasks[k] = "none"
    /\ \A j \in TaskIds : j < k => tasks[j] # "none"
    /\ tasks' = [tasks EXCEPT ![k] = "queued"]
    /\ last' = [last EXCEPT ![t] = "ok"]
    /\ UNCHANGED <<pc, op, uri, key>>
    /\ UNCHANGED <<regVars, xVars, vfsVars, histVars>>
    /\ UNCHANGED <<cancellation_in_progress_, queries_in_progress_, cur_task,
                   before_k>>
    /\ UNCHANGED <<dataVars, writeVars, noop_closes, tearVars, iterVars,
                   loadVars>>

\* A worker of async_thread_pool_ takes a queued task and starts its run
\* closure, which calls query_submit.
AsyncRun(t) ==
  \E k \in TaskIds :
    /\ tasks[k] = "queued"
    /\ Call(t, "async", "qs_enter", "A", NoKey)
    /\ tasks' = [tasks EXCEPT ![k] = "running"]
    /\ cur_task' = [cur_task EXCEPT ![t] = k]
    /\ UNCHANGED <<regVars, xVars, vfsVars, histVars>>
    /\ UNCHANGED <<cancellation_in_progress_, queries_in_progress_,
                   before_k>>
    /\ UNCHANGED <<dataVars, writeVars, noop_closes, tearVars, iterVars,
                   loadVars>>

\* QueryInProgress in_progress(this): increment_in_progress, which ends with
\* notify_all
QsIncrement(t) ==
  /\ pc[t] = "qs_enter"
  /\ queries_in_progress_' = queries_in_progress_ + 1
  /\ pc' = notify_all([pc EXCEPT ![t] = "qs_process"])
  /\ UNCHANGED <<op, uri, key, last>>
  /\ UNCHANGED <<regVars, xVars, vfsVars, histVars>>
  /\ UNCHANGED <<cancellation_in_progress_, tasks, cur_task, before_k>>
  /\ UNCHANGED <<dataVars, writeVars, noop_closes, tearVars, iterVars,
                 loadVars>>

\* A decrement_in_progress without notify_all.
QueryDone_NoNotify(t) ==
  /\ pc[t] = "qs_process"
  /\ queries_in_progress_' = queries_in_progress_ - 1
  /\ \E st \in {"ok", "err"} : Return(t, st)
  /\ tasks' = finish(tasks, cur_task[t])
  /\ cur_task' = [cur_task EXCEPT ![t] = NoTask]
  /\ before_k' = [c \in Threads |-> before_k[c] \ {cur_task[t]}]
  /\ UNCHANGED <<regVars, xVars, vfsVars, histVars>>
  /\ UNCHANGED cancellation_in_progress_
  /\ UNCHANGED <<dataVars, writeVars, noop_closes, tearVars, iterVars,
                 loadVars>>

\* A query_submit that leaves the counter as it is when process() fails.
QueryDone_LeakOnError(t) ==
  /\ pc[t] = "qs_process"
  /\ \E st \in {"ok", "err"} :
       /\ ReturnAndNotify(t, st)
       /\ queries_in_progress_' =
            IF st = "ok" THEN queries_in_progress_ - 1
            ELSE queries_in_progress_
  /\ tasks' = finish(tasks, cur_task[t])
  /\ cur_task' = [cur_task EXCEPT ![t] = NoTask]
  /\ before_k' = [c \in Threads |-> before_k[c] \ {cur_task[t]}]
  /\ UNCHANGED <<regVars, xVars, vfsVars, histVars>>
  /\ UNCHANGED cancellation_in_progress_
  /\ UNCHANGED <<dataVars, writeVars, noop_closes, tearVars, iterVars,
                 loadVars>>

\* query->process() ends with either status; the destructor of in_progress
\* decrements the counter (decrement_in_progress, which ends with
\* notify_all) and query_submit returns the status.  The run closure of a
\* task ends with it.
QueryDone(t) ==
  /\ pc[t] = "qs_process"
  /\ queries_in_progress_' = queries_in_progress_ - 1
  /\ \E st \in {"ok", "err"} : ReturnAndNotify(t, st)
  /\ tasks' = finish(tasks, cur_task[t])
  /\ cur_task' = [cur_task EXCEPT ![t] = NoTask]
  /\ before_k' = [c \in Threads |-> before_k[c] \ {cur_task[t]}]
  /\ UNCHANGED <<regVars, xVars, vfsVars, histVars>>
  /\ UNCHANGED cancellation_in_progress_
  /\ UNCHANGED <<dataVars, writeVars, noop_closes, tearVars, iterVars,
                 loadVars>>

--------------------------------------------------------------------------
\* The calls on the registry and the exclusive lock.
LockStep(t) ==
  \/ StartOpen(t)
  \/ OwfReject(t)
  \/ OwfLockReads(t)
  \/ OwfLockXAndFind(t)
  \/ OwfLockEntry(t)
  \/ OwfFileLockAndSchema(t)
  \/ OfrLoadFragments(t)
  \/ StartClose(t)
  \/ AcfLockAndFind(t)
  \/ AcfDecrement(t)
  \/ StartReopen(t)
  \/ ArLockAndFind(t)
  \/ ArLockEntry(t)
  \/ ArLoadFragments(t)
  \/ StartXlock(t)
  \/ XlLockX(t)
  \/ XlLockReadsAndTest(t)
  \/ XlSpuriousWake(t)
  \/ XlFileLock(t)
  \/ ArrayXunlock(t)

Next == \E t \in Threads : LockStep(t)

Spec == Init /\ [][Next]_vars

--------------------------------------------------------------------------
\* Cancellation together with the registry and the exclusive lock.

OpenCloseStep(t) ==
  \/ StartOpen(t)
  \/ OwfReject(t)
  \/ OwfLockReads(t)
  \/ OwfLockXAndFind(t)
  \/ OwfLockEntry(t)
  \/ OwfFileLockAndSchema(t)
  \/ OfrLoadFragments(t)
  \/ StartClose(t)
  \/ AcfLockAndFind(t)
  \/ AcfDecrement(t)

XlockStep(t) ==
  \/ StartXlock(t)
  \/ XlLockX(t)
  \/ XlLockReadsAndTest(t)
  \/ XlSpuriousWake(t)
  \/ XlFileLock(t)
  \/ ArrayXunlock(t)

CancelStep(t) ==
  \/ StartCancel(t)
  \/ CatCheckAndSet(t)
  \/ CatCancelTasks(t)
  \/ CatWaitZero(t)
  \/ CatSpuriousWake(t)
  \/ CatReset(t)
  \/ QuerySubmit(t)
  \/ QsIncrement(t)
  \/ QueryDone(t)

NextCancel ==
  \E t \in Threads : OpenCloseStep(t) \/ XlockStep(t) \/ CancelStep(t)

\* The steps of a call in progress that the scheduler runs when they are
\* enabled.  The callers are free to make no further call, and a condition
\* variable need not wake up without a notification.
Running(t) ==
  \/ OwfReject(t)
  \/ OwfLockReads(t)
  \/ OwfLockXAndFind(t)
  \/ OwfLockEntry(t)
  \/ OwfFileLockAndSchema(t)
  \/ OfrLoadFragments(t)
  \/ AcfLockAndFind(t)
  \/ AcfDecrement(t)
  \/ XlLockX(t)
  \/ XlLockReadsAndTest(t)
  \/ XlFileLock(t)
  \/ CatCheckAndSet(t)
  \/ CatCancelTasks(t)
  \/ CatWaitZero(t)
  \/ CatReset(t)
  \/ QsIncrement(t)
  \/ QueryDone(t)

SpecCancel ==
  Init /\ [][NextCancel]_vars /\ \A t \in Threads : WF_vars(Running(t))

--------------------------------------------------------------------------
\* Cancellation and queries: every thread is an application thread that
\* calls cancel_all_tasks, query_submit and query_submit_async, and a worker
\* of async_thread_pool_ when it is idle.

QueryStep(t) ==
  \/ StartCancel(t)
  \/ CatCheckAndSet(t)
  \/ CatCancelTasks(t)
  \/ CatWaitZero(t)
  \/ CatSpuriousWake(t)
  \/ CatReset(t)
  \/ QuerySubmit(t)
  \/ QuerySubmitAsync(t)
  \/ AsyncRun(t)
  \/ QsIncrement(t)
  \/ QueryDone(t)

NextQueries == \E t \in Threads : QueryStep(t)

\* The steps that the scheduler runs when they are enabled: the steps of a
\* call in progress (every query->process() ends) and the start of a queued
\* task by a worker.  The application is free to make no further call.
QueryRunning(t) ==
  \/ CatCheckAndSet(t)
  \/ CatCancelTasks(t)
  \/ CatWaitZero(t)
  \/ CatReset(t)
  \/ AsyncRun(t)
  \/ QsIncrement(t)
  \/ QueryDone(t)

SpecQueries ==
  Init /\ [][NextQueries]_vars /\ \A t \in Threads : WF_vars(QueryRunning(t))

--------------------------------------------------------------------------
\* Repeated cancellation: the calls of cancel_all_tasks follow one another
\* and no query is submitted any more.  At the start some tasks are queued,
\* ended or cancelled and some threads are inside query->process().

\* The task tables that query_submit_async, the workers and earlier
\* cancellations leave when no run closure is running.
TaskTables ==
  {ts \in [TaskIds -> {"none", "queued", "done", "cancelled"}] :
     \A j, k \in TaskIds : (j < k /\ ts[j] = "none") => ts[k] = "none"}

InitRepeat ==
  /\ \E P \in SUBSET Threads :
       /\ pc = [t \in Threads |-> IF t \in P THEN "qs_process" ELSE "idle"]
       /\ op = [t \in Threads |-> IF t \in P THEN "query" ELSE "none"]
       /\ queries_in_progress_ = Cardinality(P)
  /\ uri = [t \in Threads |-> "A"]
  /\ key = [t \in Threads |-> NoKey]
  /\ last = [t \in Threads |-> "none"]
  /\ open_arrays_for_reads_ = [u \in Uris |-> NoEntry]
  /\ open_array_for_reads_mtx_ = NoThread
  /\ open_arrays_for_writes_ = [u \in Uris |-> NoEntry]
  /\ open_array_for_writes_mtx_ = NoThread
  /\ xlock_mtx_ = NoThread
  /\ xfilelocks_ = {}
  /\ vfs_shared = [u \in Uris |-> 0]
  /\ vfs_excl = [u \in Uris |-> FALSE]
  /\ cancellation_in_progress_ = FALSE
  /\ tasks \in TaskTables
  /\ NoObjectIter
  /\ NoParallelLoad
  /\ cur_task = [t \in Threads |-> NoTask]
  /\ before_k = [t \in Threads |-> {}]
  /\ opens = [u \in Uris |-> 0]
  /\ xlocked = {}
  /\ calls = [t \in Threads |-> 0]
  /\ noop_closes = [r \in {"reads", "writes"} |-> 0]
  /\ registered = TRUE
  /\ vfs_terminated = FALSE
  /\ dpc = "alive"
  /\ teardown = <<>>
  /\ dt_errors = {}
  /\ logged = {}
  /\ ls_result = <<>>
  /\ timestamp = 0
  /\ fragment_uris = <<>>
  /\ fragments_to_load = <<>>
  /\ fragment_metadata = <<>>
  /\ memo = {}
  /\ fpc = "closed"

\* cancel_all_tasks is called when the call before it has returned.
RepeatCancel(t) ==
  /\ \A x \in Threads : ~Cancelling(x)
  /\ calls[t] < MaxCancels
  /\ Call(t, "cancel", "cat_check", "A", NoKey)
  /\ before_k' = [before_k EXCEPT ![t] = Submitted]
  /\ calls' = [calls EXCEPT ![t] = @ + 1]
  /\ UNCHANGED <<regVars, xVars, vfsVars, opens, xlocked>>
  /\ UNCHANGED <<cancellation_in_progress_, queries_in_progress_, tasks,
                 cur_task>>
  /\ UNCHANGED <<dataVars, writeVars, noop_closes, tearVars, iterVars,
                 loadVars>>

RepeatStep(t) ==
  \/ RepeatCancel(t)
  \/ CatCheckAndSet(t)
  \/ CatCancelTasks(t)
  \/ CatWaitZero(t)
  \/ CatSpuriousWake(t)
  \/ CatReset(t)
  \/ QueryDone(t)

NextRepeat == \E t \in Threads : RepeatStep(t)

SpecRepeat == InitRepeat /\ [][NextRepeat]_vars

--------------------------------------------------------------------------
\* Readers: every thread calls array_open_for_reads on array A once and,
\* when the open has succeeded, array_close_for_reads once.

ReaderOpens(t) ==
  \E k \in Keys :
    /\ calls[t] = 0
    /\ Call(t, "open", "owf_lock_reads", "A", k)
    /\ calls' = [calls EXCEPT ![t] = 1]
    /\ UNCHANGED <<regVars, xVars, vfsVars, cancelVars, opens, xlocked>>
    /\ UNCHANGED <<dataVars, writeVars, noop_closes, tearVars, iterVars,
                   loadVars>>

ReaderCloses(t) ==
  /\ calls[t] = 1
  /\ last[t] = "ok"
  /\ Call(t, "close", "acf_lock", "A", NoKey)
  /\ CloseCalled("A")
  /\ calls' = [calls EXCEPT ![t] = 2]
  /\ UNCHANGED <<regVars, xVars, vfsVars, cancelVars, xlocked>>
  /\ UNCHANGED <<dataVars, writeVars, noop_closes, tearVars, iterVars,
                 loadVars>>

NextReaders ==
  \E t \in Threads :
    \/ ReaderOpens(t)
    \/ OwfReject(t)
    \/ OwfLockReads(t)
    \/ OwfLockXAndFind(t)
    \/ OwfLockEntry(t)
    \/ OwfFileLockAndSchema(t)
    \/ OfrLoadFragments(t)
    \/ ReaderCloses(t)
    \/ AcfLockAndFind(t)
    \/ AcfDecrement(t)

SpecReaders == Init /\ [][NextReaders]_vars

--------------------------------------------------------------------------
\* The exclusive lock next to the readers: every thread opens array A for
\* reads at most once, closes it when the open has succeeded, and calls
\* array_xlock and array_xunlock at any time between its other calls.

NextXlock ==
  \E t \in Threads :
    \/ ReaderOpens(t)
    \/ OwfReject(t)
    \/ OwfLockReads(t)
    \/ OwfLockXAndFind(t)
    \/ OwfLockEntry(t)
    \/ OwfFileLockAndSchema(t)
    \/ OfrLoadFragments(t)
    \/ ReaderCloses(t)
    \/ AcfLockAndFind(t)
    \/ AcfDecrement(t)
    \/ StartXlock(t)
    \/ XlLockX(t)
    \/ XlLockReadsAndTest(t)
    \/ XlSpuriousWake(t)
    \/ XlFileLock(t)
    \/ ArrayXunlock(t)

SpecXlock == Init /\ [][NextXlock]_vars

--------------------------------------------------------------------------
\* The writes registry next to the reads registry and the exclusive lock.
\* Thread 1 opens array A for reads at most once, closes it, and calls
\* array_xlock and array_xunlock at any time between its other calls; the
\* other threads call array_open_for_writes and array_close_for_writes at
\* any time, also for an array that is not open.

WriteStep(t) ==
  \/ StartOpenW(t)
  \/ OwwReject(t)
  \/ OwwLockAndFind(t)
  \/ OwwLockEntry(t)
  \/ OwwSchema(t)
  \/ StartCloseW(t)
  \/ AcwLockAndFind(t)
  \/ AcwDecrement(t)

ReadStep(t) ==
  \/ ReaderOpens(t)
  \/ OwfReject(t)
  \/ OwfLockReads(t)
  \/ OwfLockXAndFind(t)
  \/ OwfLockEntry(t)
  \/ OwfFileLockAndSchema(t)
  \/ OfrLoadFragments(t)

ExclusiveStep(t) ==
  \/ StartXlock(t)
  \/ XlLockX(t)
  \/ XlLockReadsAndTest(t)
  \/ XlSpuriousWake(t)
  \/ XlFileLock(t)
  \/ ArrayXunlock(t)

CloseStep(t) ==
  \/ StartClose(t)
  \/ AcfLockAndFind(t)
  \/ AcfDecrement(t)

Writers == Threads \ {1}

NextWrites ==
  \/ \E t \in {1} : ReadStep(t) \/ ExclusiveStep(t)
  \/ \E t \in {1} : ReaderCloses(t) \/ AcfLockAndFind(t) \/ AcfDecrement(t)
  \/ \E t \in Writers : WriteStep(t)

SpecWrites == Init /\ [][NextWrites]_vars

\* Closes of arrays that are not open.  Thread 1 opens array A for reads at
\* most once; the other threads call array_close_for_reads,
\* array_open_for_writes and array_close_for_writes at any time.

NextCloses ==
  \/ \E t \in {1} : ReadStep(t)
  \/ \E t \in Writers : WriteStep(t) \/ CloseStep(t)

SpecCloses == Init /\ [][NextCloses]_vars

--------------------------------------------------------------------------
\* Reopening next to the readers: every thread opens array A for reads at
\* most once, closes it when the open has succeeded, and calls array_reopen
\* while its open has not been closed or while the array is not open.

ReopenStep(t) ==
  \/ StartReopen(t)
  \/ ArLockAndFind(t)
  \/ ArLockEntry(t)
  \/ ArLoadFragments(t)

NextReopen ==
  \E t \in Threads :
    \/ ReadStep(t)
    \/ ReaderCloses(t) \/ AcfLockAndFind(t) \/ AcfDecrement(t)
    \/ ReopenStep(t)

SpecReopen == Init /\ [][NextReopen]_vars

--------------------------------------------------------------------------
\* The schema of the entries: threads 1 and 2 open array A for reads at most
\* once and close it when the open has succeeded; the threads other than
\* thread 1 open and close it for writes at any time.

NextSchema ==
  \/ \E t \in {1, 2} : ReadStep(t)
  \/ \E t \in {1, 2} :
       ReaderCloses(t) \/ AcfLockAndFind(t) \/ AcfDecrement(t)
  \/ \E t \in Writers : WriteStep(t)

SpecSchema == Init /\ [][NextSchema]_vars

--------------------------------------------------------------------------
\* StorageManager::~StorageManager

\* The destructor runs when no call is in flight and no thread calls the
\* coordinator any more.  It begins with unregister_storage_manager(this)
\* and the call of cancel_all_tasks.
Destroy(t) ==
  /\ dpc = "alive"
  /\ \A x \in Threads : pc[x] = "idle"
  /\ registered' = FALSE
  /\ teardown' = <<"unregister">>
  /\ dpc' = "cancel"
  /\ pc' = [x \in Threads |-> IF x = t THEN "cat_check" ELSE "gone"]
  /\ op' = [op EXCEPT ![t] = "cancel"]
  /\ last' = [last EXCEPT ![t] = "none"]
  /\ before_k' = [before_k EXCEPT ![t] = Submitted]
  /\ UNCHANGED <<uri, key, regVars, writeVars, xVars, vfsVars, histVars>>
  /\ UNCHANGED <<cancellation_in_progress_, queries_in_progress_, tasks,
                 cur_task>>
  /\ UNCHANGED <<vfs_terminated, dt_errors, logged>>
  /\ UNCHANGED <<dataVars, noop_closes, iterVars, loadVars>>

\* cancel_all_tasks has returned, its status is dropped; delete tile_cache_.
DtDeleteTileCache(t) ==
  /\ dpc = "cancel"
  /\ pc[t] = "destructor"
  /\ teardown' = Append(teardown, "cancel_all_tasks")
  /\ dpc' = "reads"
  /\ UNCHANGED <<threadVars, regVars, writeVars, xVars, vfsVars, cancelVars,
                 histVars>>
  /\ UNCHANGED <<registered, vfs_terminated, dt_errors, logged>>
  /\ UNCHANGED <<dataVars, noop_closes, iterVars, loadVars>>

\* The shared filelocks that the entries of the reads registry hold.
SharedLocked == {u \in Uris : OA(u).present /\ OA(u).filelock}

\* A destructor that stops at the first failure of file_unlock.
DtReleaseShared_StopsOnFailure(t) ==
  /\ dpc = "reads"
  /\ pc[t] = "destructor"
  /\ \E ok \in SUBSET SharedLocked :
       /\ vfs_shared' = [u \in Uris |->
                           IF u \in ok THEN vfs_shared[u] - 1
                           ELSE vfs_shared[u]]
       /\ dt_errors' = IF ok = SharedLocked THEN dt_errors
                       ELSE dt_errors \cup {"file_unlock"}
       /\ dpc' = IF ok = SharedLocked THEN "writes" ELSE "done"
  /\ open_arrays_for_reads_' = [u \in Uris |-> NoEntry]
  /\ teardown' = Append(teardown, "open_arrays_for_reads_")
  /\ UNCHANGED <<threadVars, open_array_for_reads_mtx_, writeVars, xVars,
                 vfs_excl, cancelVars, histVars>>
  /\ UNCHANGED <<registered, vfs_terminated, logged>>
  /\ UNCHANGED <<dataVars, noop_closes, iterVars, loadVars>>

\* for (auto& open_array_it : open_arrays_for_reads_): file_unlock(vfs_) and
\* delete.  The status of file_unlock is dropped; a filelock whose release
\* fails stays held.
DtReleaseShared(t) ==
  /\ dpc = "reads"
  /\ pc[t] = "destructor"
  /\ \E ok \in SUBSET SharedLocked :
       /\ vfs_shared' = [u \in Uris |->
                           IF u \in ok THEN vfs_shared[u] - 1
                           ELSE vfs_shared[u]]
       /\ dt_errors' = IF ok = SharedLocked THEN dt_errors
                       ELSE dt_errors \cup {"file_unlock"}
  /\ open_arrays_for_reads_' = [u \in Uris |-> NoEntry]
  /\ teardown' = Append(teardown, "open_arrays_for_reads_")
  /\ dpc' = "writes"
  /\ UNCHANGED <<threadVars, open_array_for_reads_mtx_, writeVars, xVars,
                 vfs_excl, cancelVars, histVars>>
  /\ UNCHANGED <<registered, vfs_terminated, logged>>
  /\ UNCHANGED <<dataVars, noop_closes, iterVars, loadVars>>

\* for (auto& open_array_it : open_arrays_for_writes_): delete
DtDeleteWrites(t) ==
  /\ dpc = "writes"
  /\ pc[t] = "destructor"
  /\ open_arrays_for_writes_' = [u \in Uris |-> NoEntry]
  /\ teardown' = Append(teardown, "open_arrays_for_writes_")
  /\ dpc' = "xfilelocks"
  /\ UNCHANGED <<threadVars, regVars, open_array_for_writes_mtx_, xVars,
                 vfsVars, cancelVars, histVars>>
  /\ UNCHANGED <<registered, vfs_terminated, dt_errors, logged>>
  /\ UNCHANGED <<dataVars, noop_closes, iterVars, loadVars>>

\* for (auto& fl_it : xfilelocks_): vfs_->filelock_unlock of every recorded
\* filelock.  The status is dropped; a filelock whose release fails stays
\* held.  The map goes with the members of the object.
DtReleaseExclusive(t) ==
  /\ dpc = "xfilelocks"
  /\ pc[t] = "destructor"
  /\ \E ok \in SUBSET xfilelocks_ :
       /\ vfs_excl' = [u \in Uris |-> IF u \in ok THEN FALSE ELSE vfs_excl[u]]
       /\ dt_errors' = IF ok = xfilelocks_ THEN dt_errors
                       ELSE dt_errors \cup {"filelock_unlock"}
  /\ xfilelocks_' = {}
  /\ teardown' = Append(teardown, "xfilelocks_")
  /\ dpc' = "terminate"
  /\ UNCHANGED <<threadVars, regVars, writeVars, xlock_mtx_, vfs_shared,
                 cancelVars, histVars>>
  /\ UNCHANGED <<registered, vfs_terminated, logged>>
  /\ UNCHANGED <<dataVars, noop_closes, iterVars, loadVars>>

\* vfs_->terminate(); a failure is logged ("Failed to terminate VFS.");
\* delete vfs_.  The object is gone.
DtTerminate(t) ==
  /\ dpc = "terminate"
  /\ pc[t] = "destructor"
  /\ \E ok \in BOOLEAN :
       /\ vfs_terminated' = ok
       /\ dt_errors' = IF ok THEN dt_errors ELSE dt_errors \cup {"terminate"}
       /\ logged' = IF ok THEN logged ELSE logged \cup {"terminate"}
  /\ teardown' = Append(teardown, "terminate")
  /\ dpc' = "done"
  /\ pc' = [pc EXCEPT ![t] = "gone"]
  /\ UNCHANGED <<op, uri, key, last, regVars, writeVars, xVars, vfsVars,
                 cancelVars, histVars>>
  /\ UNCHANGED registered
  /\ UNCHANGED <<dataVars, noop_closes, iterVars, loadVars>>

\* The life of a coordinator: thread 1 opens array A for reads at most once,
\* calls array_xlock and array_xunlock and submits asynchronous queries that
\* no worker has started, the other threads open the array for writes; then
\* thread 1 destroys the coordinator.

DestroyStep(t) ==
  \/ Destroy(t)
  \/ CatCheckAndSet(t)
  \/ CatCancelTasks(t)
  \/ CatWaitZero(t)
  \/ CatReset(t)
  \/ DtDeleteTileCache(t)
  \/ DtReleaseShared(t)
  \/ DtDeleteWrites(t)
  \/ DtReleaseExclusive(t)
  \/ DtTerminate(t)

OpenForWritesStep(t) ==
  \/ StartOpenW(t)
  \/ OwwReject(t)
  \/ OwwLockAndFind(t)
  \/ OwwLockEntry(t)
  \/ OwwSchema(t)
  \/ AcwLockAndFind(t)
  \/ AcwDecrement(t)

NextTeardown ==
  \/ \E t \in {1} : ReadStep(t) \/ ExclusiveStep(t)
  \/ \E t \in {1} : AcfLockAndFind(t) \/ AcfDecrement(t)
  \/ \E t \in {1} : QuerySubmitAsync(t)
  \/ \E t \in Writers : OpenForWritesStep(t)
  \/ \E t \in {1} : DestroyStep(t)

SpecTeardown == Init /\ [][NextTeardown]_vars

--------------------------------------------------------------------------
\* Properties of the registry and of the exclusive lock, under Spec.

Idle == \A t \in Threads : pc[t] = "idle"

HoldsEntryMutex(t) == \E u \in Uris : OA(u).present /\ OA(u).mtx = t

\* The mutex the next step of thread t has to lock.
RequestsReadsMutex(t) ==
  pc[t] \in {"owf_lock_reads", "acf_lock", "ar_lock", "xl_lock_reads"}

RequestsXlockMutex(t) == pc[t] \in {"owf_lock_x", "xl_lock_x"}

RequestsEntryMutex(t) == pc[t] \in {"owf_mtx", "acf_mtx", "ar_mtx"}

\* The thread that thread t waits for: the owner of the mutex t has to lock
\* (a thread waiting on xlock_cv_ has to lock the registry mutex to test its
\* predicate again), NoThread when t is not held up by another thread.
WaitsFor(t) ==
  IF RequestsReadsMutex(t) \/ pc[t] = "xl_waiting"
  THEN open_array_for_reads_mtx_
  ELSE IF RequestsXlockMutex(t) THEN xlock_mtx_
  ELSE IF RequestsEntryMutex(t) THEN OA(uri[t]).mtx
  ELSE NoThread

RECURSIVE WaitChain(_, _)
\* The thread reached from t by n steps of WaitsFor.
WaitChain(t, n) ==
  IF t = NoThread \/ n = 0 THEN t ELSE WaitChain(WaitsFor(t), n - 1)

\* Thread t is on a cycle of threads each waiting for the next one.
InWaitCycle(t) == \E n \in 1..NumThreads : WaitChain(t, n) = t

\* C1: while an exclusive lock on u is held (array_xlock(u) has returned Ok
\* and the matching array_xunlock(u) has not succeeded yet), the reads
\* registry has no entry for u.
C1_XlockExcludesReaders == \A u \in Uris : u \in xlocked => ~OA(u).present

\* An exclusive lock is held while another thread is inside
\* array_open_for_reads on the same array, stopped at xlock_mtx_.
C1_Witness ==
  \E u \in Uris, t \in Threads :
    /\ u \in xlocked
    /\ op[t] = "open" /\ uri[t] = u /\ pc[t] = "owf_lock_x"

\* C2: no thread requests xlock_mtx_ while it holds the reads-registry mutex,
\* and no thread requests a registry mutex while it holds an entry mutex.
C2_LockOrder ==
  \A t \in Threads :
    /\ ~(RequestsXlockMutex(t) /\ open_array_for_reads_mtx_ = t)
    /\ ~(RequestsReadsMutex(t) /\ HoldsEntryMutex(t))

\* C3: while A is open for reads, no reachable state is a deadlock that
\* involves a caller of array_xlock(A): a cycle of threads each waiting for
\* a mutex the next one holds.
C3_NoDeadlock ==
  \A x \in Threads :
    op[x] = "xlock" /\ opens[uri[x]] > 0 => ~InWaitCycle(x)

\* C5: whenever no call is in flight, the counter of a registered entry is
\* the number of successful opens not yet matched by a close and is
\* positive, and a URI without entry has no unmatched open.
C5_RefCountIsUnmatchedOpens ==
  Idle =>
    \A u \in Uris :
      IF OA(u).present
      THEN OA(u).cnt = opens[u] /\ OA(u).cnt > 0
      ELSE opens[u] = 0

\* An array_open_for_reads call on u that has found or created the entry and
\* has not yet taken the shared filelock, or is rolling back.
OpenPending(u) ==
  \E t \in Threads :
    /\ op[t] = "open" /\ uri[t] = u
    /\ pc[t] \in {"owf_mtx", "owf_filelock", "acf_lock", "acf_mtx"}

\* C6 as stated: a shared filelock is held on <u>/__lockfile exactly when
\* the reads registry has an entry for u.
C6_FilelockIffEntry == \A u \in Uris : OA(u).present <=> vfs_shared[u] > 0

\* C6 amended: without entry for u no shared filelock is held; with an
\* entry exactly one is held, unless an array_open_for_reads call on u has
\* found or created the entry and not yet taken the filelock or is rolling
\* back.
C6_FilelockFollowsEntry ==
  \A u \in Uris :
    /\ vfs_shared[u] > 0 => OA(u).present /\ vfs_shared[u] = 1
    /\ vfs_shared[u] > 0 <=> OA(u).present /\ OA(u).filelock
    /\ OA(u).present /\ ~OpenPending(u) => vfs_shared[u] = 1

\* No call is in flight, the array is open and its shared filelock is held.
C6_Witness ==
  \E u \in Uris :
    Idle /\ OA(u).present /\ opens[u] > 0 /\ vfs_shared[u] = 1

\* C7: when array_open_for_reads returns an error the caller does not hold
\* the entry mutex, and once no call is in flight the counter is the number
\* of unmatched opens, an entry with counter 0 is not registered and a
\* shared filelock is held only for a registered entry.
C7_OpenErrorRollsBack ==
  [][\A t \in Threads :
       (op[t] = "open" /\ pc'[t] = "idle" /\ last'[t] \in {"err", "err_key"})
       => /\ ~HoldsEntryMutex(t)'
          /\ Idle' =>
               \A u \in Uris :
                 IF OA(u)'.present
                 THEN OA(u)'.cnt = opens'[u] /\ OA(u)'.cnt > 0
                      /\ vfs_shared'[u] = 1
                 ELSE opens'[u] = 0 /\ vfs_shared'[u] = 0
    ]_vars

\* C9 as stated: a filelock is recorded for u exactly between a successful
\* array_xlock(u) and the matching array_xunlock(u), and xlock_mtx_ is held
\* exactly while a filelock is recorded or an array_xlock call is in
\* progress.
C9_XlockMutexIffMap ==
  /\ \A u \in Uris : u \in xfilelocks_ <=> u \in xlocked
  /\ xlock_mtx_ # NoThread <=>
       (xfilelocks_ # {} \/ \E t \in Threads : op[t] = "xlock")

\* C9 amended: a filelock is recorded for u exactly between a successful
\* array_xlock(u) and the matching array_xunlock(u), the VFS holds the
\* exclusive filelock exactly then, and xlock_mtx_ is held whenever a
\* filelock is recorded; when none is recorded, xlock_mtx_ is held only by a
\* thread inside array_xlock or inside the find-or-create section of
\* array_open_for_reads.
C9_XlockMutexFollowsMap ==
  /\ \A u \in Uris : u \in xfilelocks_ <=> u \in xlocked
  /\ \A u \in Uris : vfs_excl[u] <=> u \in xfilelocks_
  /\ Cardinality(xfilelocks_) <= 1
  /\ xfilelocks_ # {} => xlock_mtx_ # NoThread
  /\ xlock_mtx_ # NoThread /\ xfilelocks_ = {} =>
       pc[xlock_mtx_] \in {"xl_lock_reads", "xl_waiting", "xl_filelock",
                           "owf_mtx"}

\* The exclusive lock is held by a thread that has returned from
\* array_xlock.
C9_Witness ==
  \E t \in Threads :
    xfilelocks_ # {} /\ xlock_mtx_ = t /\ pc[t] = "idle" /\ last[t] = "ok"

\* C4 as stated: once a thread is inside cancel_all_tasks and handles the
\* cancellation, an array_xlock call waiting for an array that readers have
\* open eventually returns.
C4_CancelReleasesXlock ==
  \A x \in Threads :
    ( /\ pc[x] = "xl_waiting" /\ opens[uri[x]] > 0
      /\ \E c \in Threads : pc[c] = "cat_cancel" )
      ~> (pc[x] = "idle")

\* C4 amended: cancel_all_tasks neither wakes nor aborts a waiting
\* array_xlock.  A waiting call leaves the wait only in a step that is no
\* step of cancel_all_tasks, and then tests the registry again; it goes on
\* to the filelock only when the registry has no entry for the array, and
\* it returns only from there.
C4_XlockWaitsForClose ==
  [][\A x \in Threads :
       /\ pc[x] = "xl_waiting" /\ pc'[x] # "xl_waiting" =>
            /\ pc'[x] = "xl_lock_reads"
            /\ \A c \in Threads : op[c] = "cancel" => pc'[c] = pc[c]
       /\ pc[x] # "xl_filelock" /\ pc'[x] = "xl_filelock" =>
            pc[x] = "xl_lock_reads" /\ ~OA(uri[x]).present
       /\ op[x] = "xlock" /\ pc'[x] = "idle" => pc[x] = "xl_filelock"
    ]_vars

\* A cancel_all_tasks call has cancelled the tasks and waited for the
\* queries while an array_xlock call is still waiting.
C4_Witness ==
  \E x, c \in Threads :
    pc[x] = "xl_waiting" /\ opens[uri[x]] > 0 /\ pc[c] = "cat_reset"

\* C8: when array_open_for_reads presents a key that differs from the key
\* recorded in the registered entry, the call returns an error from the key
\* check; the registry and the entry (counter, key, schema, filelock, mutex)
\* and the shared filelocks are unchanged, and the registry mutex and
\* xlock_mtx_ are unlocked.
C8_KeyMismatchFails ==
  [][\A t \in Threads :
       ( /\ op[t] = "open" /\ pc[t] = "owf_lock_x" /\ pc'[t] # "owf_lock_x"
         /\ OA(uri[t]).present /\ OA(uri[t]).key # key[t] )
       => /\ pc'[t] = "idle" /\ last'[t] = "err_key"
          /\ open_arrays_for_reads_' = open_arrays_for_reads_
          /\ vfs_shared' = vfs_shared
          /\ open_array_for_reads_mtx_' = NoThread
          /\ xlock_mtx_' = NoThread
    ]_vars

\* An open has failed on the key while the array is open with another key.
C8_Witness ==
  \E t \in Threads :
    /\ pc[t] = "idle" /\ last[t] = "err_key"
    /\ OA(uri[t]).present /\ OA(uri[t]).cnt = 1 /\ opens[uri[t]] = 1
    /\ OA(uri[t]).filelock

\* The reader's open has returned Ok and the reader has not closed yet.
Opened(t) == calls[t] = 1 /\ pc[t] = "idle" /\ last[t] = "ok"

\* The reader's close has returned Ok.
Closed(t) == calls[t] = 2 /\ pc[t] = "idle" /\ last[t] = "ok"

\* The reader's call has incremented the counter and not decremented it.
Counted(t) ==
  \/ op[t] = "open" /\ pc[t] \in {"owf_filelock", "ofr_frags"}
  \/ Opened(t)
  \/ op[t] = "close" /\ pc[t] \in {"acf_lock", "acf_mtx"}

\* No call of a reader has returned an error or is rolling back.
NoReaderFailed ==
  \A t \in Threads :
    /\ last[t] \in {"none", "ok"}
    /\ ~(op[t] = "open" /\ pc[t] \in {"acf_lock", "acf_mtx"})

\* C10: for readers that open array A with the same key and then close it,
\* as long as no call fails: the counter of the entry is the number of
\* readers that have incremented and not decremented it; it is the number
\* of readers once all opens have returned; after some closes it is the
\* number of readers still open, with the shared filelock held; after the
\* last close the entry is removed and the filelock released.
C10_ReadersShareEntry ==
  NoReaderFailed =>
    LET e == OA("A")
        n == Cardinality({t \in Threads : Counted(t)})
    IN /\ e.present => e.cnt = n
       /\ n > 0 => e.present
       /\ (\A t \in Threads : Opened(t)) =>
            e.cnt = NumThreads /\ vfs_shared["A"] = 1
       /\ (\A t \in Threads : Opened(t) \/ Closed(t)) =>
            IF \E t \in Threads : Opened(t)
            THEN /\ e.present /\ e.filelock /\ vfs_shared["A"] = 1
                 /\ e.cnt = Cardinality({t \in Threads : Opened(t)})
            ELSE ~e.present /\ vfs_shared["A"] = 0

\* One reader has closed and another one still has the array open.
C10_Witness ==
  /\ \E t \in Threads : Closed(t)
  /\ \E t \in Threads : Opened(t)
  /\ OA("A").present /\ OA("A").cnt = 1 /\ vfs_shared["A"] = 1

--------------------------------------------------------------------------
\* Fragment selection: get_fragment_uris, get_sorted_fragment_uris and
\* load_fragment_metadata, as array_open_for_reads and array_reopen run
\* them.  A name is the sequence of its characters.

\* Children of the array directory in one listing.
MaxChildren == 3
\* The largest timestamp; it stands for UINT64_MAX.
MaxTimestamp == 10

\* The character codes std::string compares by.
CharCode ==
  [c \in {".", "0", "1", "2", "_", "a", "b"} |->
     CASE c = "." -> 46 [] c = "0" -> 48 [] c = "1" -> 49 [] c = "2" -> 50
       [] c = "_" -> 95 [] c = "a" -> 97 [] c = "b" -> 98]

Digits == {"0", "1", "2"}

\* Names of children: fragments with timestamps 0, 1, 1, 2 and 10, a hidden
\* child, and a child whose name has no decimal suffix.
ChildNames ==
  { <<"_", "_", "a", "_", "0">>,
    <<"_", "_", "a", "_", "1">>,
    <<"_", "_", "b", "_", "1">>,
    <<"_", "_", "a", "_", "2">>,
    <<"_", "_", "a", "_", "1", "0">>,
    <<".", "_", "_", "a", "_", "1">>,
    <<"_", "_", "a", "b">> }

\* A child of the array directory: its name and whether it contains
\* __fragment_metadata.tdb.  One child of a well-formed name lacks the file.
Children ==
  [name : ChildNames, sentinel : {TRUE}]
    \cup {[name |-> <<"_", "_", "b", "_", "2">>, sentinel |-> FALSE]}

\* What vfs_->ls can return: every child once, in any order.
Listings ==
  { l \in UNION {[1..n -> Children] : n \in 0..MaxChildren} :
      \A i, j \in DOMAIN l : i # j => l[i].name # l[j].name }

\* The snapshot timestamps of the calls.
Snapshots == {0, 1, 2, MaxTimestamp}

\* utils::parse::starts_with(uri.last_path_part(), ".")
IsHidden(name) == Len(name) > 0 /\ name[1] = "."

RECURSIVE get_fragment_uris_WithHidden(_)
\* A filter that does not skip the hidden children.
get_fragment_uris_WithHidden(l) ==
  IF l = <<>> THEN <<>>
  ELSE IF Head(l).sentinel
       THEN <<Head(l).name>> \o get_fragment_uris_WithHidden(Tail(l))
       ELSE get_fragment_uris_WithHidden(Tail(l))

RECURSIVE get_fragment_uris(_)
\* The children that are not hidden and for which is_fragment holds, in ls
\* order.
get_fragment_uris(l) ==
  IF l = <<>> THEN <<>>
  ELSE LET c == Head(l)
           rest == get_fragment_uris(Tail(l))
       IN IF IsHidden(c.name) THEN rest
          ELSE IF c.sentinel THEN <<c.name>> \o rest
          ELSE rest

\* fragment_name.find_last_of('_'), 0 when there is none (npos + 1 = 0).
FindLastUnderscore(name) ==
  LET I == {i \in 1..Len(name) : name[i] = "_"}
  IN IF I = {} THEN 0 ELSE CHOOSE i \in I : \A j \in I : j <= i

\* fragment_name.substr(fragment_name.find_last_of('_') + 1)
TimestampStr(name) == SubSeq(name, FindLastUnderscore(name) + 1, Len(name))

RECURSIVE ScanDigits(_, _)
\* The value of the longest prefix of digits of str, after acc.
ScanDigits(str, acc) ==
  IF str = <<>> \/ Head(str) \notin Digits THEN acc
  ELSE ScanDigits(Tail(str), 10 * acc + (CharCode[Head(str)] - CharCode["0"]))

\* sscanf(t_str, "%lld", &t): t is assigned when t_str starts with a digit
\* and keeps its value otherwise.
Sscanf(str, t) ==
  IF str # <<>> /\ Head(str) \in Digits THEN ScanDigits(str, 0) ELSE t

RECURSIVE UriLess(_, _)
\* The order of two URIs of one directory: the order of their last parts as
\* strings.
UriLess(a, b) ==
  IF b = <<>> THEN FALSE
  ELSE IF a = <<>> THEN TRUE
  ELSE IF Head(a) # Head(b) THEN CharCode[Head(a)] < CharCode[Head(b)]
  ELSE UriLess(Tail(a), Tail(b))

\* operator< of std::pair<uint64_t, URI>
PairLess(x, y) == x[1] < y[1] \/ (x[1] = y[1] /\ UriLess(x[2], y[2]))

RECURSIVE SortInsert(_, _)
SortInsert(x, sorted) ==
  IF sorted = <<>> THEN <<x>>
  ELSE IF PairLess(Head(sorted), x)
       THEN <<Head(sorted)>> \o SortInsert(x, Tail(sorted))
       ELSE <<x>> \o sorted

RECURSIVE StdSort(_)
\* std::sort(begin, end)
StdSort(pairs) ==
  IF pairs = <<>> THEN <<>> ELSE SortInsert(Head(pairs), StdSort(Tail(pairs)))

RECURSIVE ScanFragments_Strict(_, _, _)
\* A loop that selects the fragments of a timestamp below the snapshot.
ScanFragments_Strict(uris, snapshot, t) ==
  IF uris = <<>> THEN <<>>
  ELSE LET t2 == Sscanf(TimestampStr(Head(uris)), t)
           rest == ScanFragments_Strict(Tail(uris), snapshot, t2)
       IN IF t2 < snapshot THEN <<<<t2, Head(uris)>>>> \o rest ELSE rest

RECURSIVE ScanFragments(_, _, _)
\* The loop over fragment_uris: t is declared before the loop and is not
\* initialized, so it enters an iteration with the value the previous one
\* left.
ScanFragments(uris, snapshot, t) ==
  IF uris = <<>> THEN <<>>
  ELSE LET t2 == Sscanf(TimestampStr(Head(uris)), t)
           rest == ScanFragments(Tail(uris), snapshot, t2)
       IN IF t2 <= snapshot THEN <<<<t2, Head(uris)>>>> \o rest ELSE rest

\* get_sorted_fragment_uris, t0 the value the uninitialized t holds.
get_sorted_fragment_uris(uris, snapshot, t0) ==
  IF uris = <<>> THEN <<>> ELSE StdSort(ScanFragments(uris, snapshot, t0))

\* open_array->fragment_metadata(frag_uri): the memoized metadata or none.
Memoized(m, u) == {md \in m : md.uri = u}

\* The metadata load_fragment_metadata returns for one (timestamp, URI):
\* the memoized one, else a new FragmentMetadata of that timestamp.
MetadataOf(m, pair) ==
  IF Memoized(m, pair[2]) # {}
  THEN CHOOSE md \in Memoized(m, pair[2]) : TRUE
  ELSE [uri |-> pair[2], timestamp |-> pair[1]]

\* The selection runs once for array_open_for_reads (positions "ls", "sort",
\* "load", then "open") and once more for array_reopen ("re_ls", "re_sort",
\* "re_load", then "reopened").
FsAfter(p) ==
  CASE p = "ls" -> "sort" [] p = "sort" -> "load" [] p = "load" -> "open"
    [] p = "re_ls" -> "re_sort" [] p = "re_sort" -> "re_load"
    [] p = "re_load" -> "reopened"

\* vfs_->ls and the loop of get_fragment_uris; ls or is_fragment can fail.
FsGetFragmentUris ==
  /\ fpc \in {"ls", "re_ls"}
  /\ \/ /\ fragment_uris' = get_fragment_uris(ls_result)
        /\ fpc' = FsAfter(fpc)
     \/ /\ fpc' = "error"
        /\ UNCHANGED fragment_uris
  /\ UNCHANGED <<ls_result, timestamp, fragments_to_load, fragment_metadata,
                 memo>>
  /\ UNCHANGED <<threadVars, regVars, xVars, vfsVars, cancelVars, histVars>>
  /\ UNCHANGED <<writeVars, noop_closes, tearVars, iterVars, loadVars>>

\* get_sorted_fragment_uris; the first value of t is any value.
FsGetSortedFragmentUris ==
  /\ fpc \in {"sort", "re_sort"}
  /\ \E t0 \in 0..MaxTimestamp :
       fragments_to_load' =
         get_sorted_fragment_uris(fragment_uris, timestamp, t0)
  /\ fpc' = FsAfter(fpc)
  /\ UNCHANGED <<ls_result, timestamp, fragment_uris, fragment_metadata, memo>>
  /\ UNCHANGED <<threadVars, regVars, xVars, vfsVars, cancelVars, histVars>>
  /\ UNCHANGED <<writeVars, noop_closes, tearVars, iterVars, loadVars>>

\* load_fragment_metadata: every fragment to load gets its memoized
\* metadata or a new one, which is memoized; a load that fails leaves the
\* metadata of any of the other fragments memoized.
FsLoadFragmentMetadata ==
  /\ fpc \in {"load", "re_load"}
  /\ LET loaded == {MetadataOf(memo, fragments_to_load[i]) :
                      i \in DOMAIN fragments_to_load}
     IN \/ /\ fragment_metadata' =
                [i \in DOMAIN fragments_to_load |->
                   MetadataOf(memo, fragments_to_load[i])]
           /\ memo' = memo \cup loaded
           /\ fpc' = FsAfter(fpc)
        \/ /\ fragments_to_load # <<>>
           /\ \E some \in SUBSET loaded :
                /\ some # loaded
                /\ memo' = memo \cup some
           /\ fpc' = "error"
           /\ UNCHANGED fragment_metadata
  /\ UNCHANGED <<ls_result, timestamp, fragment_uris, fragments_to_load>>
  /\ UNCHANGED <<threadVars, regVars, xVars, vfsVars, cancelVars, histVars>>
  /\ UNCHANGED <<writeVars, noop_closes, tearVars, iterVars, loadVars>>

\* array_reopen on the open array with a snapshot of its own; a fragment may
\* have been committed since the open.
FsReopen ==
  /\ fpc = "open"
  /\ timestamp' \in Snapshots
  /\ \/ UNCHANGED ls_result
     \/ /\ Len(ls_result) < MaxChildren
        /\ \E c \in Children :
             /\ \A i \in DOMAIN ls_result : ls_result[i].name # c.name
             /\ ls_result' \in {Append(ls_result, c), <<c>> \o ls_result}
  /\ fpc' = "re_ls"
  /\ UNCHANGED <<fragment_uris, fragments_to_load, fragment_metadata, memo>>
  /\ UNCHANGED <<threadVars, regVars, xVars, vfsVars, cancelVars, histVars>>
  /\ UNCHANGED <<writeVars, noop_closes, tearVars, iterVars, loadVars>>

InitFragments ==
  /\ InitCoordinator
  /\ NoObjectIter
  /\ NoParallelLoad
  /\ ls_result \in Listings
  /\ timestamp \in Snapshots
  /\ fragment_uris = <<>>
  /\ fragments_to_load = <<>>
  /\ fragment_metadata = <<>>
  /\ memo = {}
  /\ fpc = "ls"

NextFragments ==
  \/ FsGetFragmentUris
  \/ FsGetSortedFragmentUris
  \/ FsLoadFragmentMetadata
  \/ FsReopen

SpecFragments == InitFragments /\ [][NextFragments]_vars

--------------------------------------------------------------------------
\* load_fragment_metadata step by step: the iterations of parallel_for run
\* on the worker pool in any interleaving, while the caller holds the mutex
\* of the entry, so that the calls of one entry follow one another.

\* The pairs of one call of load_fragment_metadata.
MaxFragments == 2
\* The calls of load_fragment_metadata within one open session.
MaxLoads == 2

\* The fragments of the array, as (timestamp, URI).
FragmentPairs ==
  { <<1, <<"_", "_", "a", "_", "1">>>>, <<2, <<"_", "_", "a", "_", "2">>>> }

FragmentUris == {p[2] : p \in FragmentPairs}

\* nullptr
NoMetadata == [uri |-> <<>>, timestamp |-> 0, obj |-> 0]

\* fragments_to_load of the overload that takes a FragmentInfo list: one
\* pair per element of the list the caller supplies.
InfoLists == UNION {[1..n -> FragmentPairs] : n \in 0..MaxFragments}

\* fragments_to_load of the overload that takes a timestamp and of
\* array_reopen: the output of get_sorted_fragment_uris, sorted and with
\* every URI of the listing at most once.
SortedLists ==
  { l \in InfoLists :
      /\ \A i, j \in DOMAIN l : i # j => l[i][2] # l[j][2]
      /\ l = StdSort(l) }

\* OpenArray::insert_fragment_metadata: the memo map is keyed by the URI of
\* the fragment; an insertion under a key that is present replaces the
\* metadata of the key or leaves it, as the map does.
insert_fragment_metadata(m, md) ==
  IF Memoized(m, md.uri) = {}
  THEN {m \cup {md}}
  ELSE {(m \ Memoized(m, md.uri)) \cup {md}, m}

\* fragment_metadata->resize(fragment_num) and the start of parallel_for.
LfBegin ==
  /\ fpc = "load_idle"
  /\ load_calls < MaxLoads
  /\ \E l \in SortedLists \cup InfoLists :
       /\ fragments_to_load' = l
       /\ fragment_metadata' = [f \in DOMAIN l |-> NoMetadata]
       /\ par_pc' = [f \in DOMAIN l |-> "find"]
       /\ par_md' = [f \in DOMAIN l |-> NoMetadata]
  /\ load_calls' = load_calls + 1
  /\ fpc' = "parallel_for"
  /\ UNCHANGED <<ls_result, timestamp, fragment_uris, memo, constructed,
                 inserted>>
  /\ UNCHANGED <<threadVars, regVars, xVars, vfsVars, cancelVars, histVars>>
  /\ UNCHANGED <<writeVars, noop_closes, tearVars, iterVars>>

\* The frame of the steps of iteration f.
LfFrame ==
  /\ UNCHANGED <<ls_result, timestamp, fragment_uris, fragments_to_load, fpc,
                 load_calls>>
  /\ UNCHANGED <<threadVars, regVars, xVars, vfsVars, cancelVars, histVars>>
  /\ UNCHANGED <<writeVars, noop_closes, tearVars, iterVars>>

\* Iteration f: metadata = open_array->fragment_metadata(frag_uri); the
\* memoized metadata goes into slot f, a nullptr leads to the load.
LfFind(f) ==
  /\ fpc = "parallel_for"
  /\ f \in DOMAIN par_pc /\ par_pc[f] = "find"
  /\ LET found == Memoized(memo, fragments_to_load[f][2])
     IN IF found # {}
        THEN /\ \E md \in found :
                  /\ par_md' = [par_md EXCEPT ![f] = md]
                  /\ fragment_metadata' =
                       [fragment_metadata EXCEPT ![f] = md]
             /\ par_pc' = [par_pc EXCEPT ![f] = "done"]
        ELSE /\ par_pc' = [par_pc EXCEPT ![f] = "load"]
             /\ UNCHANGED <<par_md, fragment_metadata>>
  /\ UNCHANGED <<memo, constructed, inserted>>
  /\ LfFrame

\* Iteration f: vfs_->is_file, new FragmentMetadata and metadata->load; a
\* failure of is_file or of load ends the iteration with its status.
LfLoad(f) ==
  /\ fpc = "parallel_for"
  /\ f \in DOMAIN par_pc /\ par_pc[f] = "load"
  /\ \/ /\ par_md' =
             [par_md EXCEPT
                ![f] = [uri |-> fragments_to_load[f][2],
                        timestamp |-> fragments_to_load[f][1],
                        obj |-> constructed + 1]]
        /\ constructed' = constructed + 1
        /\ par_pc' = [par_pc EXCEPT ![f] = "insert"]
     \/ /\ par_pc' = [par_pc EXCEPT ![f] = "failed"]
        /\ UNCHANGED <<par_md, constructed>>
  /\ UNCHANGED <<memo, inserted, fragment_metadata>>
  /\ LfFrame

\* Iteration f: open_array->insert_fragment_metadata(metadata) and
\* (*fragment_metadata)[f] = metadata.
LfInsert(f) ==
  /\ fpc = "parallel_for"
  /\ f \in DOMAIN par_pc /\ par_pc[f] = "insert"
  /\ memo' \in insert_fragment_metadata(memo, par_md[f])
  /\ inserted' = [inserted EXCEPT ![par_md[f].uri] = @ + 1]
  /\ fragment_metadata' = [fragment_metadata EXCEPT ![f] = par_md[f]]
  /\ par_pc' = [par_pc EXCEPT ![f] = "done"]
  /\ UNCHANGED <<par_md, constructed>>
  /\ LfFrame

\* parallel_for has joined its iterations: the first status that is not Ok
\* is returned, and the caller unlocks the entry.
LfEnd ==
  /\ fpc = "parallel_for"
  /\ \A f \in DOMAIN par_pc : par_pc[f] \in {"done", "failed"}
  /\ fpc' = "load_idle"
  /\ UNCHANGED <<ls_result, timestamp, fragment_uris, fragments_to_load,
                 fragment_metadata, memo>>
  /\ UNCHANGED <<par_pc, par_md, constructed, inserted, load_calls>>
  /\ UNCHANGED <<threadVars, regVars, xVars, vfsVars, cancelVars, histVars>>
  /\ UNCHANGED <<writeVars, noop_closes, tearVars, iterVars>>

\* An entry of the reads registry has been created and nothing is memoized.
InitLoad ==
  /\ InitCoordinator
  /\ NoObjectIter
  /\ ls_result = <<>>
  /\ timestamp = 0
  /\ fragment_uris = <<>>
  /\ fragments_to_load = <<>>
  /\ fragment_metadata = <<>>
  /\ memo = {}
  /\ fpc = "load_idle"
  /\ par_pc = <<>>
  /\ par_md = <<>>
  /\ constructed = 0
  /\ inserted = [u \in FragmentUris |-> 0]
  /\ load_calls = 0

NextLoad ==
  \/ LfBegin
  \/ \E f \in 1..MaxFragments : LfFind(f) \/ LfLoad(f) \/ LfInsert(f)
  \/ LfEnd

SpecLoad == InitLoad /\ [][NextLoad]_vars

--------------------------------------------------------------------------
\* The object iterators: object_iter_begin, object_iter_next,
\* object_iter_next_postorder, object_iter_next_preorder.  The paths below
\* the start path are numbered; path 0 is the start path.  The calls of the
\* VFS succeed.

\* Paths below the start path.
MaxPaths == 4

\* The directory trees: every path has its parent among the paths numbered
\* before it, and is a TileDB object or not.
Trees ==
  UNION {{<<p, v>> : p \in {q \in [1..n -> 0..MaxPaths] :
                                \A i \in 1..n : q[i] < i},
                     v \in [1..n -> BOOLEAN]} : n \in 0..MaxPaths}

RECURSIVE LsFrom(_, _)
LsFrom(path, i) ==
  IF i > Len(dir_parent) THEN <<>>
  ELSE (IF dir_parent[i] = path THEN <<i>> ELSE <<>>) \o LsFrom(path, i + 1)

\* vfs_->ls(path, &uris): the children of the path, in the order of the VFS.
ls(path) == LsFrom(path, 1)

\* object_type(uri, &type)
object_type(u) == IF dir_valid[u] THEN "OBJECT" ELSE "INVALID"

\* uris.rbegin() .. uris.rend()
Reversed(uris) == [i \in 1..Len(uris) |-> uris[Len(uris) + 1 - i]]

\* for (auto it = uris.rbegin(); it != uris.rend(); ++it): push_front of
\* every uri that is a TileDB object; r is the reversed listing.
RECURSIVE PushFrontObjects(_, _)
PushFrontObjects(r, objs) ==
  IF r = <<>> THEN objs
  ELSE PushFrontObjects(
         Tail(r),
         IF object_type(Head(r)) # "INVALID"
         THEN <<Head(r)>> \o objs ELSE objs)

\* expanded_ after the same loop: one false in front for every object
\* pushed.
PushFrontFlags(pushed, flags) == [i \in 1..pushed |-> FALSE] \o flags

\* The do-while loop of object_iter_next_postorder: list the front, mark it
\* expanded, push its objects in front, until a pass pushes nothing.
RECURSIVE ExpandFront(_, _)
ExpandFront(objs, flags) ==
  LET marked == [flags EXCEPT ![1] = TRUE]
      objs2 == PushFrontObjects(Reversed(ls(Head(objs))), objs)
      flags2 == PushFrontFlags(Len(objs2) - Len(objs), marked)
  IN IF Len(objs2) = Len(objs)
     THEN <<objs2, flags2>>
     ELSE ExpandFront(objs2, flags2)

InitObjects ==
  /\ InitCoordinator
  /\ ls_result = <<>>
  /\ timestamp = 0
  /\ fragment_uris = <<>>
  /\ fragments_to_load = <<>>
  /\ fragment_metadata = <<>>
  /\ memo = {}
  /\ fpc = "closed"
  /\ \E tree \in Trees : dir_parent = tree[1] /\ dir_valid = tree[2]
  /\ objs_ = <<>>
  /\ expanded_ = <<>>
  /\ order_ = "none"
  /\ recursive_ = FALSE
  /\ emitted = <<>>
  /\ has_next = TRUE
  /\ NoParallelLoad

\* The frame of the iterator calls.
IterFrame ==
  /\ UNCHANGED <<threadVars, regVars, writeVars, xVars, vfsVars, cancelVars,
                 histVars>>
  /\ UNCHANGED <<dataVars, noop_closes, tearVars, loadVars>>
  /\ UNCHANGED <<dir_parent, dir_valid>>

\* object_iter_begin(obj_iter, path, order): the objects among the children
\* of the start path, unexpanded for POSTORDER; recursive.
ObjectIterBegin ==
  \E order \in {"PREORDER", "POSTORDER"} :
    /\ order_ = "none"
    /\ objs_' = PushFrontObjects(Reversed(ls(0)), <<>>)
    /\ expanded_' = IF order = "POSTORDER"
                    THEN PushFrontFlags(Len(objs_'), <<>>)
                    ELSE <<>>
    /\ order_' = order
    /\ recursive_' = TRUE
    /\ UNCHANGED <<emitted, has_next>>
    /\ IterFrame

\* object_iter_begin(obj_iter, path): PREORDER, not recursive.
ObjectIterBeginFlat ==
  /\ order_ = "none"
  /\ objs_' = PushFrontObjects(Reversed(ls(0)), <<>>)
  /\ expanded_' = <<>>
  /\ order_' = "PREORDER"
  /\ recursive_' = FALSE
  /\ UNCHANGED <<emitted, has_next>>
  /\ IterFrame

\* A postorder step that returns the front without expanding it.
ObjectIterNextPostorder_NoExpand ==
  /\ order_ = "POSTORDER"
  /\ has_next
  /\ objs_ # <<>>
  /\ emitted' = Append(emitted, Head(objs_))
  /\ has_next' = TRUE
  /\ objs_' = Tail(objs_)
  /\ expanded_' = Tail(expanded_)
  /\ UNCHANGED <<order_, recursive_>>
  /\ IterFrame

\* object_iter_next -> object_iter_next_postorder: expand the front down to
\* the bottom if it is not expanded, return the front and pop it.
ObjectIterNextPostorder ==
  /\ order_ = "POSTORDER"
  /\ has_next
  /\ objs_ # <<>>
  /\ LET ex == IF Head(expanded_) = FALSE
               THEN ExpandFront(objs_, expanded_)
               ELSE <<objs_, expanded_>>
     IN /\ emitted' = Append(emitted, Head(ex[1]))
        /\ has_next' = TRUE
        /\ objs_' = Tail(ex[1])
        /\ expanded_' = Tail(ex[2])
  /\ UNCHANGED <<order_, recursive_>>
  /\ IterFrame

\* A preorder step that pushes the children behind the work list.
ObjectIterNextPreorder_PushBack ==
  /\ order_ = "PREORDER"
  /\ has_next
  /\ objs_ # <<>>
  /\ emitted' = Append(emitted, Head(objs_))
  /\ has_next' = TRUE
  /\ objs_' = IF recursive_
              THEN Tail(objs_) \o
                   PushFrontObjects(Reversed(ls(Head(objs_))), <<>>)
              ELSE Tail(objs_)
  /\ UNCHANGED <<expanded_, order_, recursive_>>
  /\ IterFrame

\* object_iter_next -> object_iter_next_preorder: return the front, pop it
\* and, if recursive, push its objects in front.
ObjectIterNextPreorder ==
  /\ order_ = "PREORDER"
  /\ has_next
  /\ objs_ # <<>>
  /\ emitted' = Append(emitted, Head(objs_))
  /\ has_next' = TRUE
  /\ objs_' = IF recursive_
              THEN PushFrontObjects(Reversed(ls(Head(objs_))), Tail(objs_))
              ELSE Tail(objs_)
  /\ UNCHANGED <<expanded_, order_, recursive_>>
  /\ IterFrame

\* object_iter_next on an empty list: *has_next = false.
ObjectIterNextEnd ==
  /\ order_ # "none"
  /\ has_next
  /\ objs_ = <<>>
  /\ has_next' = FALSE
  /\ UNCHANGED <<objs_, expanded_, order_, recursive_, emitted>>
  /\ IterFrame

NextObjects ==
  \/ ObjectIterBegin
  \/ ObjectIterBeginFlat
  \/ ObjectIterNextPostorder
  \/ ObjectIterNextPreorder
  \/ ObjectIterNextEnd

SpecObjects == InitObjects /\ [][NextObjects]_vars

--------------------------------------------------------------------------
\* Properties of the fragment selection, under SpecFragments.

\* The fragment name grammar: "__", a name, "_" and a decimal timestamp.
WellFormed(name) ==
  /\ Len(name) > 2 /\ name[1] = "_" /\ name[2] = "_"
  /\ FindLastUnderscore(name) > 2
  /\ TimestampStr(name) # <<>>
  /\ \A i \in DOMAIN TimestampStr(name) : TimestampStr(name)[i] \in Digits

\* The timestamp a well-formed name carries.
NameTimestamp(name) == ScanDigits(TimestampStr(name), 0)

\* The children committed as fragments: not hidden, with the metadata file.
Committed(l) ==
  {l[i].name : i \in {j \in DOMAIN l : ~IsHidden(l[j].name) /\ l[j].sentinel}}

\* The positions of the returned list that hold the fragment u.
Positions(u) == {i \in DOMAIN fragment_metadata : fragment_metadata[i].uri = u}

\* The orders in which ls can return the children of l.
Reorderings(l) ==
  {p \in [DOMAIN l -> {l[i] : i \in DOMAIN l}] :
     \A i, j \in DOMAIN l : i # j => p[i] # p[j]}

\* No iteration of the loop of get_sorted_fragment_uris reads the
\* uninitialized t: the first name scanned starts its suffix with a digit.
InitializedScan(uris) ==
  uris = <<>> \/ Sscanf(TimestampStr(Head(uris)), 0) = Sscanf(TimestampStr(Head(uris)), 1)

\* C11: the list a successful array_open_for_reads(u, T) returns holds only
\* fragments whose name carries a timestamp <= T, and it is ascending by
\* (timestamp, URI).
C11_SelectedBoundedAndSorted ==
  fpc = "open" =>
    /\ \A i \in DOMAIN fragment_metadata :
         /\ WellFormed(fragment_metadata[i].uri)
         /\ NameTimestamp(fragment_metadata[i].uri) <= timestamp
    /\ \A i, j \in DOMAIN fragment_metadata :
         i < j =>
           PairLess(<<NameTimestamp(fragment_metadata[i].uri),
                      fragment_metadata[i].uri>>,
                    <<NameTimestamp(fragment_metadata[j].uri),
                      fragment_metadata[j].uri>>)

\* C12: after a successful array_open_for_reads(u, T) every committed
\* fragment of a timestamp <= T is in the returned list exactly once, with
\* T the largest timestamp every committed fragment is, and every element
\* of the list is a committed fragment: no hidden child and no child
\* without __fragment_metadata.tdb.
C12_CommittedFragmentsVisible ==
  fpc = "open" =>
    /\ \A u \in Committed(ls_result) :
         WellFormed(u) /\ NameTimestamp(u) <= timestamp =>
           Cardinality(Positions(u)) = 1
    /\ timestamp = MaxTimestamp =>
         \A u \in Committed(ls_result) : Cardinality(Positions(u)) = 1
    /\ \A i \in DOMAIN fragment_metadata :
         fragment_metadata[i].uri \in Committed(ls_result)

\* An open has returned a fragment while the directory holds a hidden
\* child, a child without the metadata file and a fragment above T.
C12_Witness ==
  /\ fpc = "open" /\ fragment_metadata # <<>>
  /\ \E i \in DOMAIN ls_result : IsHidden(ls_result[i].name)
  /\ \E i \in DOMAIN ls_result :
       \/ ~ls_result[i].sentinel
       \/ /\ WellFormed(ls_result[i].name)
          /\ NameTimestamp(ls_result[i].name) > timestamp

\* C13: the fragments selected for ls_result and T are the fragments
\* selected for every other order of the same children (in runs that do not
\* read the uninitialized timestamp variable).
C13_LsOrderIrrelevant ==
  fpc = "open" /\ InitializedScan(fragment_uris) =>
    \A l2 \in Reorderings(ls_result) :
      InitializedScan(get_fragment_uris(l2)) =>
        get_sorted_fragment_uris(get_fragment_uris(l2), timestamp, 0)
          = fragments_to_load

\* C14 as stated: with T = 0 and any fragments in the directory, whatever
\* the timestamps their names carry, the returned list is empty.
C14_SnapshotZeroIsEmpty ==
  ( /\ fpc = "open" /\ timestamp = 0 /\ fragment_uris # <<>>
    /\ \A u \in Committed(ls_result) : WellFormed(u) )
  => fragment_metadata = <<>>

\* C14 amended: with T = 0 the returned list holds every fragment of
\* timestamp 0 and no fragment whose name carries a timestamp >= 1; it is
\* empty when every fragment name carries a timestamp >= 1.
C14_SnapshotZeroSelectsZero ==
  fpc = "open" /\ timestamp = 0 =>
    /\ \A u \in Committed(ls_result) :
         WellFormed(u) =>
           (Positions(u) # {} <=> NameTimestamp(u) = 0)
    /\ (\A u \in Committed(ls_result) : WellFormed(u) /\ NameTimestamp(u) >= 1)
         => fragment_metadata = <<>>

\* An open at T = 0 of a directory with fragments of timestamps >= 1 has
\* returned the empty list.
C14_Witness ==
  /\ fpc = "open" /\ timestamp = 0 /\ fragment_metadata = <<>>
  /\ Committed(ls_result) # {}
  /\ \A u \in Committed(ls_result) : WellFormed(u) /\ NameTimestamp(u) >= 1

\* The fragments of l whose name carries a timestamp <= T, ascending.
Expected(l, snapshot) ==
  StdSort(ScanFragments(
    SelectSeq(get_fragment_uris(l),
              LAMBDA u : WellFormed(u) /\ NameTimestamp(u) <= snapshot),
    snapshot, 0))

\* C15: a successful array_reopen at T' returns exactly the fragments in the
\* directory at that time whose timestamp is <= T', ascending.
C15_ReopenSelectsBySnapshot ==
  fpc = "reopened" =>
    /\ Len(fragment_metadata) = Len(Expected(ls_result, timestamp))
    /\ \A i \in DOMAIN fragment_metadata :
         fragment_metadata[i].uri = Expected(ls_result, timestamp)[i][2]

--------------------------------------------------------------------------
\* Cancellation and queries

\* The calls of cancel_all_tasks that run the cancellation (they found the
\* flag clear and set it).
InCancelBody ==
  {c \in Threads :
     pc[c] \in {"cat_cancel", "cat_wait", "cat_sleeping", "cat_reset"}}

\* C16: when a cancel_all_tasks call that ran the cancellation returns, every
\* query enqueued with query_submit_async before the call started has ended
\* its query_submit or was cancelled through its cancel closure: none of them
\* is still to be processed.
C16_CancelQuiesces ==
  [][\A c \in Threads :
       (pc[c] = "cat_reset" /\ pc'[c] = "idle") => before_k[c] = {}]_vars

\* C17: under concurrent calls of cancel_all_tasks the flag is tested and
\* set in one step; at most one thread at a time runs the cancellation, the
\* flag is set exactly while one does, and a call that finds the flag set
\* returns Ok at once: it cancels no task, waits for nothing and leaves the
\* flag set.
C17_OneCancelAtATime ==
  [][/\ Cardinality(InCancelBody') <= 1
     /\ cancellation_in_progress_' <=> (InCancelBody' # {})
     /\ \A t \in Threads :
          (pc[t] = "cat_check" /\ pc'[t] # "cat_check") =>
            IF cancellation_in_progress_
            THEN /\ pc'[t] = "idle"
                 /\ last'[t] = "ok"
                 /\ cancellation_in_progress_'
                 /\ UNCHANGED <<tasks, queries_in_progress_>>
            ELSE /\ pc'[t] = "cat_cancel"
                 /\ cancellation_in_progress_']_vars

\* A call of cancel_all_tasks tests the flag while another call runs the
\* cancellation.
C17_Witness ==
  \E c, t \in Threads :
    /\ c # t
    /\ pc[c] = "cat_wait"
    /\ pc[t] = "cat_check"
    /\ cancellation_in_progress_

\* A call of cancel_all_tasks has returned.
CancelReturned ==
  \E t \in Threads : calls[t] >= 2 \/ (calls[t] = 1 /\ ~Cancelling(t))

C19_CancelReturns == \A c \in Threads : Cancelling(c) ~> ~Cancelling(c)

\* C19, with the submissions coming to an end: a call of cancel_all_tasks
\* returns or, as long as it has not, one more query_submit is entered.
C19_CancelReturnsWhenSubmissionsStop ==
  \A c \in Threads :
    Cancelling(c) ~> (~Cancelling(c) \/ \E q \in Threads : pc[q] = "qs_enter")

\* A call of cancel_all_tasks sleeps on the condition variable while a query
\* is in progress and no query_submit is about to increment the counter.
C19_Witness ==
  \E c \in Threads :
    /\ pc[c] = "cat_sleeping"
    /\ queries_in_progress_ > 0
    /\ \A q \in Threads : pc[q] # "qs_enter"

\* The threads between the increment and the decrement of query_submit,
\* that is, executing query->process().
Processing == {t \in Threads : pc[t] = "qs_process"}

\* C20: in every reachable state the in-progress counter is the number of
\* threads that execute query->process() inside query_submit; it is never
\* negative, and it is back at its value once a query_submit has returned,
\* with either status.
C20_CounterIsQueriesProcessing ==
  /\ queries_in_progress_ = Cardinality(Processing)
  /\ queries_in_progress_ >= 0

\* A query_submit has returned an error while another thread is executing
\* query->process().
C20_Witness ==
  \E t, q \in Threads :
    /\ pc[t] = "idle"
    /\ last[t] = "err"
    /\ pc[q] = "qs_process"
    /\ queries_in_progress_ = 1

--------------------------------------------------------------------------
\* The asynchronous queries

\* C21: of the two closures of a task enqueued by query_submit_async at most
\* one ever executes, and a task that has left the queue has executed exactly
\* one: the cancel closure never runs for a task whose run closure has
\* started, and the run closure never starts for a cancelled task, whatever
\* the interleaving with cancel_all_tasks.
C21_OneClosurePerTask ==
  [][\A k \in TaskIds :
       /\ tasks[k] \in {"running", "done"} => tasks'[k] \in {"running", "done"}
       /\ tasks[k] = "cancelled" => tasks'[k] = "cancelled"
       /\ tasks[k] = "queued" =>
            tasks'[k] \in {"queued", "running", "cancelled"}]_vars

\* cancel_all_tasks has cancelled a queued task while the run closure of
\* another task was running.
C21_Witness ==
  \E j, k \in TaskIds, c \in Threads :
    /\ tasks[j] = "cancelled"
    /\ tasks[k] = "running"
    /\ pc[c] \in {"cat_wait", "cat_sleeping"}

--------------------------------------------------------------------------
\* Errors of the exclusive lock

\* C22: when filelock_lock fails inside array_xlock(u), the call returns the
\* error with xlock_mtx_ and the reads-registry mutex unlocked, no filelock
\* recorded for u and no VFS filelock changed, so that the mutexes are free
\* for a later array_xlock or array_open_for_reads.
C22_XlockFailureReleases ==
  [][\A t \in Threads :
       (pc[t] = "xl_filelock" /\ pc'[t] = "idle" /\ last'[t] = "err") =>
         /\ xlock_mtx_' = NoThread
         /\ open_array_for_reads_mtx_' = NoThread
         /\ uri[t] \notin xfilelocks_'
         /\ UNCHANGED <<vfs_excl, vfs_shared, open_arrays_for_reads_>>]_vars

\* An array_xlock of a thread that made no other call has failed, and
\* another thread has since locked both mutexes inside its array_xlock.
C22_Witness ==
  \E t, x \in Threads :
    /\ calls[t] = 0 /\ pc[t] = "idle" /\ last[t] = "err"
    /\ xfilelocks_ = {}
    /\ pc[x] = "xl_filelock" /\ xlock_mtx_ = x

\* C23: array_xunlock(u) called when no filelock is recorded for u returns
\* the error "Filelock not found" and changes nothing: xfilelocks_,
\* xlock_mtx_, the VFS filelocks and the reads registry are as before.
C23_XunlockWithoutLockFails ==
  [][\A t \in Threads :
       ( /\ pc[t] = "idle" /\ pc'[t] = "idle"
         /\ uri'[t] \notin xfilelocks_
         /\ <<last[t], uri[t]>> # <<last'[t], uri'[t]>> ) =>
         /\ last'[t] = "err_nolock"
         /\ UNCHANGED <<xVars, vfsVars, regVars>>]_vars

\* array_xunlock has failed for want of a recorded filelock while another
\* thread holds xlock_mtx_.
C23_Witness ==
  \E t \in Threads :
    /\ pc[t] = "idle" /\ last[t] = "err_nolock"
    /\ xlock_mtx_ \notin {NoThread, t}
    /\ xfilelocks_ = {}

\* The step of thread t is an array_xunlock that returns Ok.
XunlockOk(t) ==
  /\ pc[t] = "idle" /\ pc'[t] = "idle"
  /\ uri'[t] \in xfilelocks_
  /\ last'[t] = "ok"
  /\ xlocked' # xlocked

\* C24: a successful array_xlock(u) followed by a successful array_xunlock(u)
\* of the same thread restores the coordinator.  The steps of array_xlock
\* leave both registries and the shared filelocks as they are and the call
\* returns with the reads-registry mutex unlocked; the array_xunlock removes
\* the filelock of u from the map, releases the exclusive filelock and
\* unlocks xlock_mtx_ and touches nothing else; and whenever no call is in
\* flight and every array_xlock is matched, the map is empty, the three
\* mutexes are free and no exclusive filelock is held, as before the array_xlock.
C24_XlockXunlockRestores ==
  [][/\ \A t \in Threads :
          XunlockOk(t) =>
            /\ xfilelocks_' = xfilelocks_ \ {uri'[t]}
            /\ ~vfs_excl'[uri'[t]]
            /\ xlock_mtx_' = NoThread
            /\ UNCHANGED <<regVars, writeVars, vfs_shared>>
     /\ \A t \in Threads :
          (op[t] = "xlock" /\ pc[t] # "xl_waiting" /\ pc'[t] # pc[t]) =>
            /\ UNCHANGED <<open_arrays_for_reads_, writeVars, vfs_shared>>
            /\ pc'[t] = "idle" => open_array_for_reads_mtx_' = NoThread
     /\ (Idle' /\ xlocked' = {}) =>
          /\ xfilelocks_' = {}
          /\ xlock_mtx_' = NoThread
          /\ open_array_for_reads_mtx_' = NoThread
          /\ open_array_for_writes_mtx_' = NoThread
          /\ \A u \in Uris : ~vfs_excl'[u]]_vars

\* A thread that made no other call has returned Ok from array_xunlock, after
\* its array_xlock, and no call is in flight.
C24_Witness ==
  \E t \in Threads :
    /\ Idle
    /\ calls[t] = 0 /\ last[t] = "ok"
    /\ xlock_mtx_ = NoThread /\ xfilelocks_ = {} /\ xlocked = {}

\* The step of thread t is the lookup of an array_close_for_reads that finds
\* no entry for its URI.
NoopCloseForReads(t) ==
  /\ pc[t] = "acf_lock" /\ op[t] = "close"
  /\ ~OA(uri[t]).present
  /\ pc'[t] # pc[t]

\* The step of thread t is the lookup of an array_close_for_writes that finds
\* no entry for its URI.
NoopCloseForWrites(t) ==
  /\ pc[t] = "acw_lock" /\ op[t] = "closew"
  /\ ~OW(uri[t]).present
  /\ pc'[t] # pc[t]

\* C25: array_close_for_reads of a URI with no entry in the reads registry
\* returns Ok and changes nothing: both registries with their reference
\* counts and mutexes, the filelock map, xlock_mtx_ and the filelocks of the
\* VFS are as before and no other thread is woken; the same holds for
\* array_close_for_writes and the writes registry, however many such closes
\* came before.
C25_CloseOfNotOpenIsNoop ==
  [][\A t \in Threads :
       (NoopCloseForReads(t) \/ NoopCloseForWrites(t)) =>
         /\ pc'[t] = "idle" /\ last'[t] = "ok"
         /\ UNCHANGED <<regVars, writeVars, xVars, vfsVars>>
         /\ \A o \in Threads \ {t} : pc'[o] = pc[o] /\ last'[o] = last[o]]_vars

\* Two closes for reads of a URI open for writes only and two closes for
\* writes of a URI open for reads only have found no entry and have returned
\* Ok; afterwards the array is open for reads and holds its shared filelock.
C25_Witness ==
  /\ noop_closes["reads"] >= 2 /\ noop_closes["writes"] >= 2
  /\ OA("A").present /\ OA("A").filelock /\ vfs_shared["A"] > 0
  /\ \A t \in Threads : pc[t] = "idle"

\* The step of thread t belongs to a call of array_open_for_writes or of
\* array_close_for_writes.
WriteCallStep(t) ==
  /\ pc'[t] # pc[t]
  /\ op[t] \in {"openw", "closew"} \/ op'[t] \in {"openw", "closew"}

\* C26: no step of array_open_for_writes or array_close_for_writes changes
\* a filelock of the VFS, the filelock map, xlock_mtx_ or the reads registry
\* and its mutex; and the registry step of array_open_for_writes needs only
\* the writes-registry mutex, so it is taken while another thread holds
\* xlock_mtx_ and the exclusive filelock.
C26_WritesUseNoFilelock ==
  [][/\ \A t \in Threads :
          WriteCallStep(t) => UNCHANGED <<regVars, xVars, vfsVars>>
     /\ \A t \in Threads :
          (pc[t] = "oww_lock" /\ open_array_for_writes_mtx_ = NoThread) =>
            ENABLED OwwLockAndFind(t)]_vars

\* Array A has an entry in both registries with different reference counts,
\* the shared filelock is held for the readers only.
C26_Witness ==
  /\ OA("A").present /\ OW("A").present
  /\ OA("A").cnt = 1 /\ OW("A").cnt = 2
  /\ OA("A").filelock /\ ~OW("A").filelock

\* An open for writes is past its registry step while another thread holds
\* the exclusive lock on the array.
WritesUnderXlock ==
  \E t, x \in Threads :
    /\ pc[t] = "oww_schema" /\ uri[t] \in xfilelocks_
    /\ xlock_mtx_ = x /\ x # t

\* Thread t owns a registry mutex.
HoldsRegistryMutex(t) ==
  open_array_for_reads_mtx_ = t \/ open_array_for_writes_mtx_ = t

\* The next statement of thread t is a blocking call of the VFS: the
\* exclusive filelock of array_xlock, the release of the shared filelock by
\* the last close, the shared filelock and the schema of an open, the
\* listing and the reads of the fragment metadata.
AtVfsCall(t) ==
  \/ pc[t] = "xl_filelock"
  \/ /\ pc[t] = "acf_mtx"
     /\ OA(uri[t]).mtx = NoThread
     /\ OA(uri[t]).cnt = 1 /\ OA(uri[t]).filelock
  \/ pc[t] = "owf_filelock" /\ ~(OA(uri[t]).filelock /\ OA(uri[t]).schema)
  \/ pc[t] \in {"ofr_frags", "ar_frags"}
  \/ pc[t] = "oww_schema" /\ ~OW(uri[t]).schema

\* Thread t waits for the mutex of an entry that another thread holds
\* across a blocking call of the VFS.
WaitsForEntryInVfsCall(t) ==
  \E o \in Threads \ {t} :
    /\ AtVfsCall(o)
    /\ \/ pc[t] \in {"owf_mtx", "ar_mtx", "acf_mtx"} /\ OA(uri[t]).mtx = o
       \/ pc[t] \in {"oww_mtx", "acw_mtx"} /\ OW(uri[t]).mtx = o

\* C27: no thread owns a registry mutex while it performs a blocking call
\* of the VFS or while it waits for the mutex of an entry that another
\* thread holds across such a call.
C27_NoRegistryMutexAcrossVfs ==
  \A t \in Threads :
    HoldsRegistryMutex(t) => ~AtVfsCall(t) /\ ~WaitsForEntryInVfsCall(t)

\* The place of a step in the history of the destructor, 0 if it was not
\* done.
StepNo(step) ==
  IF \E i \in 1..Len(teardown) : teardown[i] = step
  THEN CHOOSE i \in 1..Len(teardown) : teardown[i] = step
  ELSE 0

\* The destructor has finished and every step was done once.
TeardownComplete ==
  /\ dpc = "done"
  /\ Len(teardown) = 6
  /\ \A step \in {"unregister", "cancel_all_tasks", "open_arrays_for_reads_",
                   "open_arrays_for_writes_", "xfilelocks_", "terminate"} :
       StepNo(step) > 0

\* C28 as stated: the destructor unregisters, cancels, releases the
\* exclusive filelocks, then destroys the entries and releases their shared
\* filelocks, then terminates the VFS; when it has finished no filelock is
\* held and every failure was logged.
C28_TeardownAsStated ==
  dpc = "done" =>
    /\ TeardownComplete
    /\ StepNo("unregister") < StepNo("cancel_all_tasks")
    /\ StepNo("cancel_all_tasks") < StepNo("xfilelocks_")
    /\ StepNo("xfilelocks_") < StepNo("open_arrays_for_reads_")
    /\ StepNo("xfilelocks_") < StepNo("open_arrays_for_writes_")
    /\ StepNo("open_arrays_for_reads_") < StepNo("terminate")
    /\ StepNo("open_arrays_for_writes_") < StepNo("terminate")
    /\ \A u \in Uris : vfs_shared[u] = 0 /\ ~vfs_excl[u]
    /\ dt_errors \subseteq logged

\* C28, as the destructor is written: it unregisters, runs cancel_all_tasks,
\* releases the shared filelocks of the entries of the reads registry and
\* deletes them, deletes the entries of the writes registry, releases the
\* exclusive filelocks and terminates the VFS, in this order and whatever
\* call fails.  When it has finished the coordinator is unregistered, no
\* task is queued, no entry and no recorded filelock is left, a filelock is
\* still held only if its release failed, and the one failure the destructor
\* logs is that of the termination of the VFS.
C28_TeardownOrder ==
  dpc = "done" =>
    /\ teardown = <<"unregister", "cancel_all_tasks",
                    "open_arrays_for_reads_", "open_arrays_for_writes_",
                    "xfilelocks_", "terminate">>
    /\ ~registered
    /\ ~cancellation_in_progress_
    /\ \A k \in TaskIds : tasks[k] # "queued"
    /\ \A u \in Uris : ~OA(u).present /\ ~OW(u).present
    /\ xfilelocks_ = {}
    /\ \A u \in Uris : vfs_shared[u] = 0 \/ "file_unlock" \in dt_errors
    /\ \A u \in Uris : ~vfs_excl[u] \/ "filelock_unlock" \in dt_errors
    /\ vfs_terminated <=> "terminate" \notin dt_errors
    /\ logged = dt_errors \cap {"terminate"}

\* The destructor has finished for a coordinator that had array A open for
\* reads and a queued task: the shared filelock is released and the task
\* cancelled, although the termination of the VFS failed afterwards.
C28_Witness ==
  /\ dpc = "done"
  /\ opens["A"] > 0 /\ vfs_shared["A"] = 0
  /\ \E k \in TaskIds : tasks[k] = "cancelled"
  /\ dt_errors = {"terminate"}

--------------------------------------------------------------------------
\* Properties of the object iterators, under SpecObjects.

RECURSIVE IsAncestor(_, _)
\* Path a lies on the way from the start path to path n.
IsAncestor(a, n) ==
  /\ n # 0
  /\ dir_parent[n] = a \/ IsAncestor(a, dir_parent[n])

RECURSIVE Reachable(_)
\* Path n is a TileDB object and so is every path between the start path
\* and n.
Reachable(n) ==
  /\ dir_valid[n]
  /\ dir_parent[n] = 0 \/ Reachable(dir_parent[n])

TreeObjects == {n \in 1..Len(dir_parent) : Reachable(n)}

\* The TileDB objects among the children of path p, in the order of ls.
ChildObjects(p) == SelectSeq(ls(p), LAMBDA n : dir_valid[n])

EmittedSet == {emitted[i] : i \in 1..Len(emitted)}

\* Every path was returned at most once and is a reachable TileDB object;
\* when has_next is false every reachable object was returned.
EmitsObjectsOnce ==
  /\ \A i, j \in 1..Len(emitted) : i # j => emitted[i] # emitted[j]
  /\ EmittedSet \subseteq TreeObjects
  /\ ~has_next => EmittedSet = TreeObjects

\* C29: a POSTORDER iterator returns every reachable TileDB object once and
\* nothing else, an object only after all the objects below it, the objects
\* of one directory in the order of ls, and has_next = false after the last.
C29_Postorder ==
  order_ = "POSTORDER" =>
    /\ EmitsObjectsOnce
    /\ \A i \in 1..Len(emitted) : \A d \in TreeObjects :
         IsAncestor(emitted[i], d) => \E j \in 1..(i - 1) : emitted[j] = d
    /\ \A i, j \in 1..Len(emitted) :
         (i < j /\ dir_parent[emitted[i]] = dir_parent[emitted[j]]) =>
           emitted[i] < emitted[j]

\* A POSTORDER iteration has ended; it returned an object after an object
\* below it, and left out an object that lies below a path that is none.
C29_Witness ==
  /\ order_ = "POSTORDER" /\ ~has_next
  /\ \E i, j \in 1..Len(emitted) : i < j /\ dir_parent[emitted[i]] = emitted[j]
  /\ \E n \in 1..Len(dir_parent) : dir_valid[n] /\ n \notin TreeObjects

\* C30: a recursive PREORDER iterator returns every reachable TileDB object
\* once and nothing else, an object before every object below it and its
\* first child object right after it; the iterator that is not recursive
\* returns the objects among the children of the start path, in the order of
\* ls, and nothing else.
C30_Preorder ==
  order_ = "PREORDER" =>
    IF recursive_
    THEN /\ EmitsObjectsOnce
         /\ \A i, j \in 1..Len(emitted) :
              IsAncestor(emitted[i], emitted[j]) => i < j
         /\ \A i \in 1..(Len(emitted) - 1) :
              ChildObjects(emitted[i]) # <<>> =>
                emitted[i + 1] = Head(ChildObjects(emitted[i]))
    ELSE /\ Len(emitted) <= Len(ChildObjects(0))
         /\ emitted = SubSeq(ChildObjects(0), 1, Len(emitted))
         /\ ~has_next => emitted = ChildObjects(0)

\* A recursive PREORDER iteration has ended; it returned an object with two
\* child objects and a later sibling.
C30_Witness ==
  /\ order_ = "PREORDER" /\ recursive_ /\ ~has_next
  /\ \E i \in 1..Len(emitted) :
       /\ Len(ChildObjects(emitted[i])) = 2
       /\ \E j \in (i + 1)..Len(emitted) :
            dir_parent[emitted[j]] = dir_parent[emitted[i]]

\* An iteration that is not recursive has ended above an object that has a
\* child object.
FlatIterationEnded ==
  /\ order_ = "PREORDER" /\ ~recursive_ /\ ~has_next
  /\ \E i \in 1..Len(emitted) : ChildObjects(emitted[i]) # <<>>

--------------------------------------------------------------------------
\* Properties of array_reopen

\* The step of thread t belongs to a call of array_reopen, the
\* array_close_for_reads of its error path included.
InReopen(t) == op[t] = "reopen" /\ pc'[t] # pc[t]

\* C31: no step of array_reopen adds or removes an entry of the reads
\* registry or changes a ref count, a held filelock of an entry or a shared
\* filelock of the VFS, and when the call returns, with Ok or with an error,
\* the calling thread has released the mutex of the entry.
C31_ReopenKeepsRegistry ==
  [][\A t \in Threads :
       InReopen(t) =>
         /\ \A u \in Uris :
              /\ OA(u).present' = OA(u).present
              /\ OA(u).cnt' = OA(u).cnt
              /\ OA(u).filelock' = OA(u).filelock
         /\ vfs_shared' = vfs_shared
         /\ pc'[t] = "idle" => \A u \in Uris : OA(u).mtx' # t]_vars

--------------------------------------------------------------------------
\* Properties of load_fragment_metadata

\* C32: within one open session of an entry the metadata of a fragment URI
\* is inserted into the memo map at most once, the memo map only grows, and
\* the metadata a call returns for a fragment is the memoized one, whatever
\* the interleaving of the iterations of parallel_for and whatever the list
\* of fragments.
C32_MemoizedOnce ==
  [][/\ memo \subseteq memo'
     /\ \A u \in FragmentUris : inserted'[u] <= 1
     /\ \A f \in DOMAIN fragment_metadata' :
          fragment_metadata'[f] # NoMetadata =>
            fragment_metadata'[f] \in memo']_vars

--------------------------------------------------------------------------
\* Properties of the schema of an entry

\* The step sets the schema of entry e (e2 after the step) of an array:
\* set_array_schema after a load_array_schema that found no schema.
LoadsSchema(e, e2) == e.present /\ ~e.schema /\ e2.schema

\* The thread that owns the mutex of entry e takes the step.
OwnerSteps(e) == \E t \in Threads : e.mtx = t /\ pc'[t] # pc[t]

--------------------------------------------------------------------------
\* Properties of the cancel flag

\* The call of thread c has set the flag and has not yet observed the
\* counter at zero.
BeforeObservation(c) == pc[c] \in {"cat_cancel", "cat_wait", "cat_sleeping"}

\* C34: the flag is set by the check-and-set of a call that found it clear;
\* from then until that call has observed the counter at zero
\* cancellation_in_progress() returns true; the call observes zero only when
\* no thread is between the increment and the decrement of query_submit; and
\* the flag is cleared only by the step of that call that follows the
\* observation.  A query in progress when the flag is set therefore finds
\* the flag set until it ends.
C34_FlagHeldUntilObservedZero ==
  [][/\ \A c \in Threads :
          /\ BeforeObservation(c)' => cancellation_in_progress'
          /\ (~BeforeObservation(c) /\ BeforeObservation(c)') =>
               /\ pc[c] = "cat_check" /\ pc'[c] = "cat_cancel"
               /\ ~cancellation_in_progress
          /\ pc'[c] = "cat_reset" =>
               \/ pc[c] = "cat_reset"
               \/ /\ pc[c] = "cat_wait"
                  /\ queries_in_progress_ = 0
                  /\ Processing = {}
     /\ (cancellation_in_progress /\ ~cancellation_in_progress') =>
          \E c \in Threads : pc[c] = "cat_reset" /\ pc'[c] = "idle"
     /\ \A q \in Threads :
          (\E c \in Threads : BeforeObservation(c)) /\ q \in Processing =>
            cancellation_in_progress']_vars

\* A call of cancel_all_tasks has cancelled a queued task and sleeps while
\* a worker processes the query of a task that had started; the flag is set.
C34_Witness ==
  \E c, q \in Threads :
    /\ pc[c] = "cat_sleeping"
    /\ pc[q] = "qs_process" /\ cur_task[q] # NoTask
    /\ \E k \in TaskIds : tasks[k] = "cancelled"
    /\ cancellation_in_progress

--------------------------------------------------------------------------
\* Properties of get_sorted_fragment_uris on malformed names

\* The selection has gone past get_sorted_fragment_uris without an error.
Selected == fpc \in {"load", "open", "re_load", "reopened"}

\* C35: when a child accepted as a fragment has a name without a decimal
\* timestamp after its last '_', the selection ends with an error: it does
\* not go on to load_fragment_metadata, the child is not in the list
\* get_sorted_fragment_uris returns, and no pair of the list carries a
\* timestamp other than the one in the name of its URI.
C35_MalformedNameFails ==
  Selected =>
    /\ \A i \in DOMAIN fragment_uris : WellFormed(fragment_uris[i])
    /\ \A i \in DOMAIN fragments_to_load :
         /\ WellFormed(fragments_to_load[i][2])
         /\ fragments_to_load[i][1] = NameTimestamp(fragments_to_load[i][2])

--------------------------------------------------------------------------
\* Properties of the mutexes at the return of a call

\* Thread t holds the mutex of a registry or of an entry.
HoldsRegistryOrEntryMutex(t) ==
  \/ open_array_for_reads_mtx_ = t
  \/ open_array_for_writes_mtx_ = t
  \/ \E u \in Uris : OA(u).mtx = t \/ OW(u).mtx = t

\* C36: a thread that is in no call holds no registry mutex and no entry
\* mutex, whatever its calls have returned; it holds xlock_mtx_ only while
\* an exclusive filelock is recorded.
C36_ReturnsReleaseMutexes ==
  \A t \in Threads :
    pc[t] = "idle" =>
      /\ ~HoldsRegistryOrEntryMutex(t)
      /\ xlock_mtx_ = t => xfilelocks_ # {}

\* A thread that is in no call holds no registry mutex, and xlock_mtx_ only
\* while an exclusive filelock is recorded.
RegistryMutexesReleased ==
  \A t \in Threads :
    pc[t] = "idle" =>
      /\ open_array_for_reads_mtx_ # t
      /\ open_array_for_writes_mtx_ # t
      /\ xlock_mtx_ = t => xfilelocks_ # {}

\* A thread that is in no call holds no entry mutex of the writes registry.
WriteEntryMutexesReleased ==
  \A t \in Threads : pc[t] = "idle" => \A u \in Uris : OW(u).mtx # t

--------------------------------------------------------------------------
\* Properties of the destruction of an entry

\* The step destroys the entry of u in the reads registry.
DestroysEntry(u) == OA(u).present /\ ~OA(u).present'

\* Thread t waits for the mutex of the entry of u.
WaitsForEntryOf(t, u) == RequestsEntryMutex(t) /\ uri[t] = u

\* Every step that locks the mutex of an entry is taken by a thread that
\* holds the mutex of the registry of the entry.
EntryLockedUnderRegistryMutex ==
  [][\A u \in Uris, t \in Threads :
       /\ (OA(u).mtx # t /\ OA(u).mtx' = t) => open_array_for_reads_mtx_ = t
       /\ (OW(u).mtx # t /\ OW(u).mtx' = t) => open_array_for_writes_mtx_ = t
    ]_vars

\* An entry is destroyed by the last close only: its ref count was 1, no
\* thread holds its mutex and no other thread waits for it.
DestroyedAtZero ==
  [][\A u \in Uris :
       DestroysEntry(u) =>
         /\ OA(u).cnt = 1
         /\ OA(u).mtx = NoThread
         /\ \A t \in Threads :
              WaitsForEntryOf(t, u) => open_array_for_reads_mtx_ = t]_vars

\* C37: an entry is destroyed only with its ref count back at zero, with its
\* mutex free and no other thread waiting for it, and never while a
\* successful open of the array has not been closed; the mutex of an entry
\* is locked only by a thread that holds the mutex of its registry.
C37_DestroyedWhenUnused ==
  [][\A u \in Uris :
       /\ DestroysEntry(u) =>
            /\ OA(u).cnt = 1
            /\ OA(u).mtx = NoThread
            /\ \A t \in Threads :
                 WaitsForEntryOf(t, u) => open_array_for_reads_mtx_ = t
            /\ opens'[u] = 0
       /\ \A t \in Threads :
            (OA(u).mtx # t /\ OA(u).mtx' = t) => open_array_for_reads_mtx_ = t
    ]_vars

====
